---- MODULE Spec2Model ----
(***************************************************************************)
(* Model of the export download server (src/code_sample.ts): the handler   *)
(* of POST /api/data/download, its artifact cache and the remote           *)
(* computation service it talks to.                                        *)
(*                                                                         *)
(* JavaScript strings are sequences of one-character strings, so that      *)
(* toLowerCase, includes, startsWith, split, the OBJ regular expression    *)
(* and base64 decoding are computed character by character.  An optional   *)
(* value (a field that may be undefined) is a sequence of length 0 or 1.   *)
(* Bytes are sequences of numbers in 0..255.                               *)
(***************************************************************************)
EXTENDS Integers, Sequences, FiniteSets, TLC

(***************************************************************************)
(* Optional values and JavaScript truthiness                               *)
(***************************************************************************)
None == <<>>
Some(x) == <<x>>
IsSome(o) == o # <<>>
Val(o) == o[1]

\* `x ? .. : ..` / `x || y` on an optional string: undefined and '' are falsy.
Truthy(o) == o # <<>> /\ o[1] # <<>>

\* `a || b` on optional strings.
OrElse(a, b) == IF Truthy(a) THEN a ELSE b

\* String(x || ''): the string, '' when undefined or empty.
StrOrEmpty(o) == IF Truthy(o) THEN o[1] ELSE <<>>

(***************************************************************************)
(* String primitives                                                       *)
(***************************************************************************)
UpperChars ==
  <<"A","B","C","D","E","F","G","H","I","J","K","L","M",
    "N","O","P","Q","R","S","T","U","V","W","X","Y","Z">>
LowerChars ==
  <<"a","b","c","d","e","f","g","h","i","j","k","l","m",
    "n","o","p","q","r","s","t","u","v","w","x","y","z">>
DigitChars == <<"0","1","2","3","4","5","6","7","8","9">>

Range(s) == {s[i] : i \in DOMAIN s}
IndexOf(c, s) == CHOOSE i \in DOMAIN s : s[i] = c

LowerChar(c) == IF c \in Range(UpperChars) THEN LowerChars[IndexOf(c, UpperChars)] ELSE c

\* String.prototype.toLowerCase
ToLowerCase(s) == [i \in DOMAIN s |-> LowerChar(s[i])]

\* does `sub` occur in `s` starting at position i (1-based)
OccursAt(sub, s, i) ==
  /\ i >= 1
  /\ i + Len(sub) - 1 <= Len(s)
  /\ \A k \in 1..Len(sub) : s[i + k - 1] = sub[k]

\* String.prototype.includes
Includes(s, sub) == \E i \in 1..(Len(s) + 1) : OccursAt(sub, s, i)

\* String.prototype.startsWith
StartsWith(s, prefix) == OccursAt(prefix, s, 1)

EndsWith(s, suffix) == OccursAt(suffix, s, Len(s) - Len(suffix) + 1)

\* positions of the commas of s, and the first comma at or after position i
CommaAtOrAfter(s, i) ==
  IF \E k \in i..Len(s) : s[k] = ","
    THEN CHOOSE k \in i..Len(s) : s[k] = "," /\ \A j \in i..(k - 1) : s[j] # ","
    ELSE 0

\* payload.split(',')[1] ?? '' : the piece between the first and the second comma
SplitComma1(s) ==
  LET c1 == CommaAtOrAfter(s, 1) IN
  IF c1 = 0 THEN <<>>
  ELSE LET c2 == CommaAtOrAfter(s, c1 + 1) IN
       IF c2 = 0 THEN SubSeq(s, c1 + 1, Len(s)) ELSE SubSeq(s, c1 + 1, c2 - 1)

\* everything after the first comma of s ('' when s has no comma)
AfterFirstComma(s) ==
  LET c1 == CommaAtOrAfter(s, 1) IN
  IF c1 = 0 THEN <<>> ELSE SubSeq(s, c1 + 1, Len(s))

\* a literal rendered as a TLA+ string (for messages)
RECURSIVE ToStr(_)
ToStr(s) == IF s = <<>> THEN "" ELSE s[1] \o ToStr(Tail(s))

(***************************************************************************)
(* The regular expression /\b(x-)?obj\b/i                                  *)
(***************************************************************************)
\* \w
IsWordChar(c) ==
  c \in Range(UpperChars) \cup Range(LowerChars) \cup Range(DigitChars) \cup {"_"}

\* is the character at position i of s a word character (false outside s)
WordAt(s, i) == i \in DOMAIN s /\ IsWordChar(s[i])

\* \b between positions i-1 and i
BoundaryBefore(s, i) == WordAt(s, i - 1) # WordAt(s, i)

\* the pattern matches with its first character at position i
ObjMatchAt(s, i) ==
  LET l == ToLowerCase(s) IN
  /\ BoundaryBefore(s, i)
  /\ \/ /\ OccursAt(<<"x","-","o","b","j">>, l, i)
        /\ BoundaryBefore(s, i + 5)
     \/ /\ OccursAt(<<"o","b","j">>, l, i)
        /\ BoundaryBefore(s, i + 3)

\* the pattern without its i flag
ObjPatternTest_CaseSensitive(s) ==
  \E i \in 1..Len(s) :
    /\ BoundaryBefore(s, i)
    /\ \/ OccursAt(<<"x","-","o","b","j">>, s, i) /\ BoundaryBefore(s, i + 5)
       \/ OccursAt(<<"o","b","j">>, s, i) /\ BoundaryBefore(s, i + 3)

\* /\b(x-)?obj\b/i.test(s)
ObjPatternTest(s) == \E i \in 1..Len(s) : ObjMatchAt(s, i)

(***************************************************************************)
(* Buffer.from(s, 'base64')                                                *)
(* Node's decoder skips characters that are not base64 digits, stops at    *)
(* the first '=', accepts the URL-safe digits '-' and '_', and never       *)
(* throws.  Four digits give three bytes; two trailing digits give one     *)
(* byte, three give two, a single trailing digit gives none.               *)
(***************************************************************************)
B64Digits == UpperChars \o LowerChars \o DigitChars \o <<"+", "/">>

IsB64Digit(c) == c \in Range(B64Digits) \cup {"-", "_"}

B64Value(c) ==
  IF c = "-" THEN 62
  ELSE IF c = "_" THEN 63
  ELSE IndexOf(c, B64Digits) - 1

\* the digits of s up to the first '=', other characters dropped
RECURSIVE B64DigitsOf(_)
B64DigitsOf(s) ==
  IF s = <<>> \/ s[1] = "=" THEN <<>>
  ELSE IF IsB64Digit(s[1]) THEN <<B64Value(s[1])>> \o B64DigitsOf(Tail(s))
  ELSE B64DigitsOf(Tail(s))

RECURSIVE B64Bytes(_)
B64Bytes(d) ==
  IF Len(d) < 2 THEN <<>>
  ELSE LET b1 == (d[1] * 4 + d[2] \div 16) % 256 IN
       IF Len(d) = 2 THEN <<b1>>
       ELSE LET b2 == ((d[2] % 16) * 16 + d[3] \div 4) % 256 IN
            IF Len(d) = 3 THEN <<b1, b2>>
            ELSE <<b1, b2, ((d[3] % 4) * 64 + d[4]) % 256>>
                 \o B64Bytes(SubSeq(d, 5, Len(d)))

Base64Decode(s) == B64Bytes(B64DigitsOf(s))

(***************************************************************************)
(* String constants of the handler                                         *)
(***************************************************************************)
s_download == <<"d","o","w","n","l","o","a","d">>
s_moda_json == <<"m","o","d","a","-","j","s","o","n">>
s_data_scheme == <<"d","a","t","a",":">>
s_pdf == <<"p","d","f">>
s_zip == <<"z","i","p">>
s_obj == <<"o","b","j">>
s_application_pdf == <<"a","p","p","l","i","c","a","t","i","o","n","/","p","d","f">>
s_application_zip == <<"a","p","p","l","i","c","a","t","i","o","n","/","z","i","p">>
s_model_obj == <<"m","o","d","e","l","/","o","b","j">>
s_octet_stream == <<"a","p","p","l","i","c","a","t","i","o","n","/","o","c","t","e","t","-","s","t","r","e","a","m">>
s_attachment == <<"a","t","t","a","c","h","m","e","n","t",";"," ","f","i","l","e","n","a","m","e","=","\"">>
s_default_endpoint == <<"h","t","t","p","s",":","/","/","s","d","r","8","e","u","c","1",".","e","u","-","c","e","n","t","r","a","l","-","1",".","s","h","a","p","e","d","i","v","e","r",".","c","o","m">>
s_render_uri == <<"h","t","t","p","s",":","/","/","m","o","n","g","o","-","s","d","-","s","e","r","v","e","r",".","o","n","r","e","n","d","e","r",".","c","o","m">>
s_api_data == <<"/","a","p","i","/","d","a","t","a","/">>

\* Number.prototype.toString for a natural number
RECURSIVE NatToString(_)
NatToString(n) ==
  IF n < 10 THEN <<DigitChars[n + 1]>>
  ELSE NatToString(n \div 10) \o <<DigitChars[(n % 10) + 1]>>

(***************************************************************************)
(* Shapes of the remote service's answers                                  *)
(*                                                                         *)
(* A payload field (`data`, `content`) is absent, a string, an ArrayBuffer,*)
(* a Buffer, or some other object.  A content entry and the result object  *)
(* carry the fields the handler reads.                                     *)
(***************************************************************************)
AbsentP == [kind |-> "absent", str |-> <<>>, bytes |-> <<>>]
StringP(s) == [kind |-> "string", str |-> s, bytes |-> <<>>]
ArrayBufferP(b) == [kind |-> "arraybuffer", str |-> <<>>, bytes |-> b]
BufferP(b) == [kind |-> "buffer", str |-> <<>>, bytes |-> b]
ObjectP == [kind |-> "object", str |-> <<>>, bytes |-> <<>>]

\* JavaScript truthiness of a payload field: undefined and '' are falsy
PayloadTruthy(p) == p.kind # "absent" /\ ~(p.kind = "string" /\ p.str = <<>>)

\* a.data || a.content
PayloadOr(a, b) == IF PayloadTruthy(a) THEN a ELSE b

(***************************************************************************)
(* Step 3: the moda-json input parameter (first match in iteration order)  *)
(***************************************************************************)
RECURSIVE FindModaJsonFrom(_, _)
FindModaJsonFrom(params, i) ==
  IF i > Len(params) THEN None
  ELSE IF params[i].name = s_moda_json THEN Some(params[i].id)
  ELSE FindModaJsonFrom(params, i + 1)

\* FindModaJson without the `break`: the last parameter named moda-json wins
FindModaJson_LastMatch(sessionData) ==
  IF IsSome(sessionData.parameters)
    THEN LET ps == Val(sessionData.parameters)
             M == {i \in DOMAIN ps : ps[i].name = s_moda_json}
         IN IF M = {} THEN None
            ELSE Some(ps[CHOOSE k \in M : \A j \in M : j <= k].id)
    ELSE None

\* sessionData.parameters is an optional mapping, listed in Object.entries order
FindModaJson(sessionData) ==
  IF IsSome(sessionData.parameters)
    THEN FindModaJsonFrom(Val(sessionData.parameters), 1)
    ELSE None

(***************************************************************************)
(* Step 4: export selection by type and optional name filter               *)
(***************************************************************************)
TypeMatches(e, exportType) ==
  ToLowerCase(StrOrEmpty(e.type)) = ToLowerCase(exportType)

NameMatches(e, exportNameContains) ==
  IF Truthy(exportNameContains)
    THEN Includes(ToLowerCase(StrOrEmpty(e.name)), ToLowerCase(Val(exportNameContains)))
    ELSE TRUE

NoExport == [id |-> None, name |-> <<>>]

RECURSIVE SelectExportFrom(_, _, _, _)
SelectExportFrom(exports, i, exportType, exportNameContains) ==
  IF i > Len(exports) THEN NoExport
  ELSE IF TypeMatches(exports[i], exportType) /\ NameMatches(exports[i], exportNameContains)
    THEN [id |-> Some(exports[i].id),
          name |-> IF Truthy(exports[i].name) THEN Val(exports[i].name) ELSE exportType]
  ELSE SelectExportFrom(exports, i + 1, exportType, exportNameContains)

\* SelectExport without the `break`: the last matching export wins
SelectExport_LastMatch(sessionData, exportType, exportNameContains) ==
  IF IsSome(sessionData.exports)
    THEN LET es == Val(sessionData.exports)
             M == {i \in DOMAIN es : /\ TypeMatches(es[i], exportType)
                                      /\ NameMatches(es[i], exportNameContains)}
         IN IF M = {} THEN NoExport
            ELSE LET i == CHOOSE k \in M : \A j \in M : j <= k
                 IN [id |-> Some(es[i].id),
                     name |-> IF Truthy(es[i].name) THEN Val(es[i].name) ELSE exportType]
    ELSE NoExport

SelectExport(sessionData, exportType, exportNameContains) ==
  IF IsSome(sessionData.exports)
    THEN SelectExportFrom(Val(sessionData.exports), 1, exportType, exportNameContains)
    ELSE NoExport

\* ExportNotFoundMessage without the name filter
ExportNotFoundMessage_NoFilter(exportType, exportNameContains) ==
  "No export matched type=\"" \o ToStr(exportType) \o "\""

\* the 404 message of Step 4
ExportNotFoundMessage(exportType, exportNameContains) ==
  "No export matched type=\"" \o ToStr(exportType) \o "\""
    \o (IF Truthy(exportNameContains)
          THEN " and nameContains=\"" \o ToStr(Val(exportNameContains)) \o "\""
          ELSE "")

(***************************************************************************)
(* Payload extraction                                                      *)
(***************************************************************************)
RECURSIVE FindContentFrom(_, _, _)
FindContentFrom(content, i, contentType) ==
  IF i > Len(content) THEN None
  ELSE IF ToLowerCase(StrOrEmpty(content[i].contentType)) = ToLowerCase(contentType)
    THEN Some(content[i])
  ELSE FindContentFrom(content, i + 1, contentType)

\* contentType ? content.find(..) : content[0]
PickContent(content, contentType) ==
  IF Truthy(contentType) THEN FindContentFrom(content, 1, Val(contentType))
  ELSE IF Len(content) >= 1 THEN Some(content[1])
  ELSE None

\* the payload of the picked entry turned into bytes (None: fileBuffer stays null)
DecodePickedPayload(payload) ==
  IF payload.kind = "string" THEN
    IF StartsWith(payload.str, s_data_scheme)
      THEN Some(Base64Decode(SplitComma1(payload.str)))
      ELSE Some(Base64Decode(payload.str))
  ELSE IF payload.kind \in {"arraybuffer", "buffer"} THEN Some(payload.bytes)
  ELSE None

\* the payload of the result object (fallback shape) turned into bytes
DecodeDirectPayload(payload) ==
  IF payload.kind = "string" THEN Some(Base64Decode(payload.str))
  ELSE IF payload.kind \in {"arraybuffer", "buffer"} THEN Some(payload.bytes)
  ELSE None

\* pickedContent?.f for an optional entry
PickedField(picked, f) == IF IsSome(picked) THEN Val(picked)[f] ELSE None
PickedPayload(picked, f) == IF IsSome(picked) THEN Val(picked)[f] ELSE AbsentP

\* href || url || downloadUrl || link of the result object
DirectUrl(sed) == OrElse(sed.href, OrElse(sed.url, OrElse(sed.downloadUrl, sed.link)))

\* fileBuffer, pickedContent and downloadUrl after the extraction block
ExtractContent(sed, contentType) ==
  IF IsSome(sed.contentArray) THEN
    LET picked == PickContent(Val(sed.contentArray), contentType)
        payload == PayloadOr(PickedPayload(picked, "data"), PickedPayload(picked, "content"))
    IN IF PayloadTruthy(payload)
         THEN [fileBuffer |-> DecodePickedPayload(payload), pickedContent |-> picked,
               downloadUrl |-> None]
       ELSE IF Truthy(PickedField(picked, "href"))
         THEN [fileBuffer |-> None, pickedContent |-> picked,
               downloadUrl |-> PickedField(picked, "href")]
       ELSE [fileBuffer |-> None, pickedContent |-> picked, downloadUrl |-> None]
  ELSE
    LET payload == PayloadOr(sed.data, sed.content)
    IN IF PayloadTruthy(payload)
         THEN [fileBuffer |-> DecodeDirectPayload(payload), pickedContent |-> None,
               downloadUrl |-> None]
       ELSE IF Truthy(DirectUrl(sed))
         THEN [fileBuffer |-> None, pickedContent |-> None, downloadUrl |-> DirectUrl(sed)]
       ELSE [fileBuffer |-> None, pickedContent |-> None, downloadUrl |-> None]

\* NeedsFetch without the test of downloadUrl
NeedsFetch_AnyUrl(fileBuffer, downloadUrl) == ~IsSome(fileBuffer)

\* if (!fileBuffer && downloadUrl)
NeedsFetch(fileBuffer, downloadUrl) == ~IsSome(fileBuffer) /\ Truthy(downloadUrl)

(***************************************************************************)
(* Content type, extension and filename                                    *)
(***************************************************************************)
\* (pickedContent?.format || selectedExportData?.format || '').toString().toLowerCase()
FormatToken(picked, sed) ==
  ToLowerCase(StrOrEmpty(OrElse(PickedField(picked, "format"), sed.format)))

\* ResolveContentType with the caller's type tried before the entry's
ResolveContentType_CallerFirst(format, picked, contentType) ==
  IF format = s_pdf THEN s_application_pdf
  ELSE IF format = s_zip THEN s_application_zip
  ELSE IF format = s_obj THEN s_model_obj
  ELSE StrOrEmpty(OrElse(contentType,
                         OrElse(PickedField(picked, "contentType"), Some(s_octet_stream))))

\* the content type chosen from the format token or the fallbacks
ResolveContentType(format, picked, contentType) ==
  IF format = s_pdf THEN s_application_pdf
  ELSE IF format = s_zip THEN s_application_zip
  ELSE IF format = s_obj THEN s_model_obj
  ELSE StrOrEmpty(OrElse(PickedField(picked, "contentType"),
                         OrElse(contentType, Some(s_octet_stream))))

\* NormalizeContentType without the rewrite of vendor types
NormalizeContentType_Keep(format, ct) == ct

\* OBJ-like vendor types are rewritten when there is no format token
NormalizeContentType(format, ct) ==
  IF format = <<>> /\ ObjPatternTest(ct) THEN s_model_obj ELSE ct

\* FileExtension with the format token ignored
FileExtension_FromTypeOnly(format, ct) ==
  LET ext == IF ct = s_application_pdf THEN <<".">> \o s_pdf
             ELSE IF ct = s_application_zip THEN <<".">> \o s_zip
             ELSE IF ct = s_model_obj THEN <<".">> \o s_obj
             ELSE <<>>
  IN IF ext = <<>> /\ ObjPatternTest(ct) THEN <<".">> \o s_obj ELSE ext

\* the extension from the format token, else from the content type
FileExtension(format, ct) ==
  LET ext == IF format # <<>> THEN <<".">> \o format
             ELSE IF ct = s_application_pdf THEN <<".">> \o s_pdf
             ELSE IF ct = s_application_zip THEN <<".">> \o s_zip
             ELSE IF ct = s_model_obj THEN <<".">> \o s_obj
             ELSE <<>>
  IN IF ext = <<>> /\ ObjPatternTest(ct) THEN <<".">> \o s_obj ELSE ext

FileName(designId, selectedExportName, exportType, ext) ==
  designId \o <<"_">>
    \o (IF selectedExportName # <<>> THEN selectedExportName ELSE exportType)
    \o ext

\* ContentDisposition without the attachment wrapper
ContentDisposition_Bare(filename) == filename

\* attachment; filename="<filename>"
ContentDisposition(filename) == s_attachment \o filename \o <<"\"">>

(***************************************************************************)
(* The artifact cache (services/firebaseCache, not part of the sources     *)
(* at hand): an exact-match map from the criteria tuple to the artifact.   *)
(***************************************************************************)
CacheKey(designId, exportType, exportNameContains, contentType) ==
  [designId |-> designId, exportType |-> exportType,
   exportNameContains |-> exportNameContains, contentType |-> contentType]

CacheMiss == [hit |-> FALSE, buffer |-> None, contentType |-> None, filename |-> None]

\* getCachedExport(criteria)
GetCachedExport(store, key) ==
  IF key \in DOMAIN store
    THEN [hit |-> TRUE, buffer |-> Some(store[key].buffer),
          contentType |-> Some(store[key].contentType),
          filename |-> Some(store[key].filename)]
    ELSE CacheMiss

\* the store after putCachedExport(criteria, buffer, contentType, filename) succeeded
PutCachedExport(store, put) ==
  [k \in DOMAIN store \cup {put.key} |->
     IF k = put.key
       THEN [buffer |-> put.buffer, contentType |-> put.contentType,
             filename |-> put.filename]
       ELSE store[k]]

(***************************************************************************)
(* State                                                                   *)
(***************************************************************************)
VARIABLES
  listening,         \* app.listen has been called
  isMongoConnected,  \* the module-level flag set by connectToMongoDB
  cache,             \* the artifact cache: criteria tuple -> artifact
  pendingPuts,       \* cache writes launched and not yet settled
  req,               \* the download requests: slot -> handler state
  stored,            \* history: the requests whose artifact is in the cache now
  collection,        \* the documents of the collection, in insertion order
  now,               \* the clock read by `new Date()`
  last,              \* the last exchange of a document endpoint
  inserted,          \* the number of ObjectIds the database has generated
  tester,            \* the browser tester: its module state and its controls
  remote             \* the remote calls of the tester that have not returned

vars == <<listening, isMongoConnected, cache, pendingPuts, req, stored, collection, now, last, inserted,
          tester, remote>>

\* the variables of the download endpoint, and those of the document endpoints
downloadVars == <<cache, pendingPuts, req, stored>>
storeVars == <<collection, now, last, inserted>>
serverVars == <<listening, isMongoConnected, cache, pendingPuts, req, stored,
                collection, now, last, inserted>>
testerVars == <<tester, remote>>

DOWNLOAD_TICKET ==
  "80e664af137358eb815863befd67a2e95848ab0f38a6c6dd2782e67be2b314b7729c849b8455089fd96ebbcd029af8a85d956598a8f64381885bc229f4225c3e7737018c7c9c1eb1da9b0629b35656d9a2424c385fd0be81933e6a1ae7bc155e492f0f252d8eeee2b9db0d03613623914e459aa17f30a5ca-16b0fd83018df447ae8af036efb925f8"

NoResp ==
  [status |-> 0, xCache |-> "", contentType |-> None, contentDisposition |-> None,
   contentLength |-> None, bytes |-> None, error |-> None, message |-> None]

\* res.status(s).json({ error, message })
JsonError(status, error, message) ==
  [NoResp EXCEPT !.status = status, !.error = Some(error), !.message = Some(message)]

\* DownloadError answering with the default status
DownloadError_NoStatus(message) ==
  JsonError(200, "Download error", IF message # "" THEN message ELSE "Unknown error")

\* the catch of the download endpoint
DownloadError(message) ==
  JsonError(500, "Download error", IF message # "" THEN message ELSE "Unknown error")

\* SessionErrorMessage without the context
SessionErrorMessage_Bare(message) == message

\* the message of the error rethrown when createSessionByTicket fails
SessionErrorMessage(message) == "Failed to create ShapeDiver session: " \o message

\* a handler that has not been entered
IdleReq ==
  [pc |-> "idle", body |-> None, endpoint |-> None, ticket |-> None,
   cached |-> None, sessionData |-> None, modaJsonInputId |-> None,
   selectedExportId |-> None, selectedExportName |-> <<>>, exportRequest |-> None,
   selectedExportData |-> None, pickedContent |-> None, inlineBuffer |-> None,
   downloadUrl |-> None, fetchedUrl |-> None, fetchResponse |-> None,
   fileBuffer |-> None, format |-> <<>>,
   resolvedCt |-> <<>>,
   ct |-> <<>>, ext |-> <<>>, filename |-> <<>>, put |-> None, resp |-> NoResp,
   nProbe |-> 0, nSession |-> 0, nCompute |-> 0, nFetch |-> 0, nPut |-> 0,
   inFlightAtEntry |-> {}, nResp |-> 0]

\* exportType = 'download' by default
ExportTypeOf(body) == IF IsSome(body.exportType) THEN Val(body.exportType) ELSE s_download

\* shapediverEndpoint || default
EndpointOf(body) == StrOrEmpty(OrElse(body.shapediverEndpoint, Some(s_default_endpoint)))

\* the criteria the cache is probed with
ProbeKey(body) ==
  CacheKey(Val(body.designId), ExportTypeOf(body), body.exportNameContains, body.contentType)

\* StoreKey with the caller's content type in place of the normalized one
StoreKey_CallerType(body, ct) ==
  CacheKey(Val(body.designId), ExportTypeOf(body), body.exportNameContains, body.contentType)

\* the criteria the artifact is stored under
StoreKey(body, ct) ==
  CacheKey(Val(body.designId), ExportTypeOf(body), body.exportNameContains, Some(ct))

Done(q, resp) == [q EXCEPT !.pc = "done", !.resp = resp, !.nResp = @ + 1]

\* CallCreateSession taking a ticket the caller put in the body
CallCreateSession_CallerTicket(q) ==
  [q EXCEPT !.pc = "session", !.endpoint = Some(EndpointOf(Val(q.body))),
            !.ticket = IF "ticket" \in DOMAIN Val(q.body) /\ IsSome(Val(q.body).ticket)
                         THEN Val(q.body).ticket
                         ELSE Some(DOWNLOAD_TICKET),
            !.nSession = @ + 1]

\* Steps 1-2: the session call is issued
CallCreateSession(q) ==
  [q EXCEPT !.pc = "session", !.endpoint = Some(EndpointOf(Val(q.body))),
            !.ticket = Some(DOWNLOAD_TICKET), !.nSession = @ + 1]

\* CacheHitResponse with the cached content type forgotten
CacheHitResponse_NoType(cached) ==
  [NoResp EXCEPT
     !.status = 200,
     !.xCache = "HIT",
     !.contentType = Some(s_octet_stream),
     !.contentDisposition =
        IF Truthy(cached.filename) THEN Some(ContentDisposition(Val(cached.filename)))
        ELSE None,
     !.contentLength = Some(NatToString(Len(Val(cached.buffer)))),
     !.bytes = cached.buffer]

\* the response for a cache hit
CacheHitResponse(cached) ==
  [NoResp EXCEPT
     !.status = 200,
     !.xCache = "HIT",
     !.contentType = OrElse(cached.contentType, Some(s_octet_stream)),
     !.contentDisposition =
        IF Truthy(cached.filename) THEN Some(ContentDisposition(Val(cached.filename)))
        ELSE None,
     !.contentLength = Some(NatToString(Len(Val(cached.buffer)))),
     !.bytes = cached.buffer]

\* SendFile storing the artifact whatever bypassCache says
SendFile_AlwaysStore(q, fileBuffer) ==
  LET body == Val(q.body)
      format == FormatToken(q.pickedContent, Val(q.selectedExportData))
      resolved == ResolveContentType(format, q.pickedContent, body.contentType)
      ct == NormalizeContentType(format, resolved)
      ext == FileExtension(format, ct)
      filename == FileName(Val(body.designId), q.selectedExportName, ExportTypeOf(body), ext)
      put == Some([key |-> StoreKey(body, ct), buffer |-> fileBuffer,
                   contentType |-> ct, filename |-> filename, origin |-> body])
  IN [q EXCEPT
        !.pc = "done", !.nResp = @ + 1, !.fileBuffer = Some(fileBuffer), !.format = format,
        !.resolvedCt = resolved, !.ct = ct, !.ext = ext, !.filename = filename,
        !.put = put, !.nPut = IF IsSome(put) THEN @ + 1 ELSE @,
        !.resp = [NoResp EXCEPT
                    !.status = 200, !.xCache = "MISS", !.contentType = Some(ct),
                    !.contentDisposition = Some(ContentDisposition(filename)),
                    !.contentLength = Some(NatToString(Len(fileBuffer))),
                    !.bytes = Some(fileBuffer)]]

\* headers, cache store and send, once fileBuffer holds the bytes
SendFile(q, fileBuffer) ==
  LET body == Val(q.body)
      format == FormatToken(q.pickedContent, Val(q.selectedExportData))
      resolved == ResolveContentType(format, q.pickedContent, body.contentType)
      ct == NormalizeContentType(format, resolved)
      ext == FileExtension(format, ct)
      filename == FileName(Val(body.designId), q.selectedExportName, ExportTypeOf(body), ext)
      put == IF ~body.bypassCache
               THEN Some([key |-> StoreKey(body, ct), buffer |-> fileBuffer,
                          contentType |-> ct, filename |-> filename, origin |-> body])
               ELSE None
  IN [q EXCEPT
        !.pc = "done", !.nResp = @ + 1, !.fileBuffer = Some(fileBuffer), !.format = format,
        !.resolvedCt = resolved, !.ct = ct, !.ext = ext, !.filename = filename,
        !.put = put, !.nPut = IF IsSome(put) THEN @ + 1 ELSE @,
        !.resp = [NoResp EXCEPT
                    !.status = 200, !.xCache = "MISS", !.contentType = Some(ct),
                    !.contentDisposition = Some(ContentDisposition(filename)),
                    !.contentLength = Some(NatToString(Len(fileBuffer))),
                    !.bytes = Some(fileBuffer)]]

(***************************************************************************)
(* The handler of POST /api/data/download, one action per stretch of code  *)
(* between two awaits.  Remote answers are drawn from the sets given to    *)
(* the actions.                                                            *)
(***************************************************************************)
\* startServer: connectToMongoDB, then app.listen
StartServer ==
  /\ ~listening
  /\ listening' = TRUE
  /\ \E connected \in BOOLEAN : isMongoConnected' = connected
  /\ UNCHANGED <<cache, pendingPuts, req, stored>>
  /\ UNCHANGED storeVars
  /\ UNCHANGED testerVars

\* EnterDownload with the cache probed before designId is validated
EnterDownload_ProbeFirst(b) ==
  LET q == [IdleReq EXCEPT !.body = Some(b)] IN
  IF ~isMongoConnected
    THEN Done(q, JsonError(503, "Database unavailable",
                "MongoDB is not connected. Please start MongoDB and restart the server."))
  ELSE IF ~Truthy(b.designId)
    THEN Done([q EXCEPT !.nProbe = IF b.bypassCache THEN 0 ELSE 1],
              JsonError(400, "Missing required parameter", "designId is required"))
  ELSE IF ~b.bypassCache
    THEN [q EXCEPT !.pc = "probe", !.nProbe = @ + 1]
  ELSE CallCreateSession(q)

\* requireMongo, body destructuring, validation, and the first call issued
EnterDownload(b) ==
  LET q == [IdleReq EXCEPT !.body = Some(b)] IN
  IF ~isMongoConnected
    THEN Done(q, JsonError(503, "Database unavailable",
                "MongoDB is not connected. Please start MongoDB and restart the server."))
  ELSE IF ~Truthy(b.designId)
    THEN Done(q, JsonError(400, "Missing required parameter", "designId is required"))
  ELSE IF ~b.bypassCache
    THEN [q EXCEPT !.pc = "probe", !.nProbe = @ + 1]
  ELSE CallCreateSession(q)

\* the requests that are between their first await and their response
InFlight(r) == req[r].pc \in {"probe", "session", "compute", "fetch"}

\* inFlightAtEntry is history: the other requests in flight when this one came
ReceiveDownload(r, bodies) ==
  /\ listening
  /\ req[r].pc \in {"idle", "done"}
  /\ \E b \in bodies :
       req' = [req EXCEPT ![r] =
                 [EnterDownload(b) EXCEPT
                    !.inFlightAtEntry = {s \in DOMAIN req \ {r} : InFlight(s)}]]
  /\ UNCHANGED <<listening, isMongoConnected, cache, pendingPuts, stored>>
  /\ UNCHANGED storeVars
  /\ UNCHANGED testerVars

\* if (cached.hit && cached.buffer)
IsCacheHit(cached) == cached.hit /\ IsSome(cached.buffer)

\* AfterProbe without the return after the cached artifact was sent
AfterProbe_NoReturn(q, cached) ==
  IF IsCacheHit(cached)
    THEN [CallCreateSession([q EXCEPT !.cached = Some(cached)]) EXCEPT
            !.resp = CacheHitResponse(cached), !.nResp = @ + 1]
    ELSE CallCreateSession([q EXCEPT !.cached = Some(cached)])

\* the code after `await getCachedExport(..)`
AfterProbe(q, cached) ==
  IF IsCacheHit(cached)
    THEN Done([q EXCEPT !.cached = Some(cached)], CacheHitResponse(cached))
    ELSE CallCreateSession([q EXCEPT !.cached = Some(cached)])

\* CacheProbeReturns joining a request in flight for the same criteria
CacheProbeReturns_Coalesced(r) ==
  /\ req[r].pc = "probe"
  /\ req' = [req EXCEPT ![r] =
               IF \E s \in DOMAIN req \ {r} :
                    InFlight(s) /\ req[s].body = req[r].body
                 THEN Done(@, [NoResp EXCEPT !.status = 200, !.xCache = "MISS"])
                 ELSE AfterProbe(@, GetCachedExport(cache, ProbeKey(Val(req[r].body))))]
  /\ UNCHANGED <<listening, isMongoConnected, cache, pendingPuts, stored>>
  /\ UNCHANGED storeVars
  /\ UNCHANGED testerVars

CacheProbeReturns(r) ==
  /\ req[r].pc = "probe"
  /\ req' = [req EXCEPT ![r] =
               AfterProbe(@, GetCachedExport(cache, ProbeKey(Val(req[r].body))))]
  /\ UNCHANGED <<listening, isMongoConnected, cache, pendingPuts, stored>>
  /\ UNCHANGED storeVars
  /\ UNCHANGED testerVars

\* ExportRequest with the document URL built without the design id
ExportRequest_NoDesign(modaJsonInputId, designId, selectedExportId) ==
  [parameters |-> <<[id |-> modaJsonInputId, value |-> s_render_uri \o s_api_data]>>,
   exports |-> <<selectedExportId>>]

\* Step 5-6: the compute request
ExportRequest(modaJsonInputId, designId, selectedExportId) ==
  [parameters |-> <<[id |-> modaJsonInputId,
                     value |-> s_render_uri \o s_api_data \o designId]>>,
   exports |-> <<selectedExportId>>]

\* AfterSession with the export selected before the parameter is looked up
AfterSession_ExportFirst(q, sessionData) ==
  LET body == Val(q.body)
      moda == FindModaJson(sessionData)
      sel == SelectExport(sessionData, ExportTypeOf(body), body.exportNameContains)
      q1 == [q EXCEPT !.sessionData = Some(sessionData), !.modaJsonInputId = moda,
                      !.selectedExportId = sel.id, !.selectedExportName = sel.name]
  IN IF ~(IsSome(sel.id) /\ Val(sel.id) # "")
       THEN Done(q1, JsonError(404, "Export not found",
                       ExportNotFoundMessage(ExportTypeOf(body), body.exportNameContains)))
     ELSE IF ~(IsSome(moda) /\ Val(moda) # "")
       THEN Done(q1, DownloadError("Could not find moda-json input parameter"))
     ELSE [q1 EXCEPT
             !.pc = "compute",
             !.exportRequest =
                Some(ExportRequest(Val(moda), Val(body.designId), Val(sel.id))),
             !.nCompute = @ + 1]

\* the code after `await createSessionByTicket(..)` returned sessionData
AfterSession(q, sessionData) ==
  LET body == Val(q.body)
      moda == FindModaJson(sessionData)
      sel == SelectExport(sessionData, ExportTypeOf(body), body.exportNameContains)
      q1 == [q EXCEPT !.sessionData = Some(sessionData), !.modaJsonInputId = moda]
  IN IF ~(IsSome(moda) /\ Val(moda) # "")
       THEN Done(q1, DownloadError("Could not find moda-json input parameter"))
     ELSE IF ~(IsSome(sel.id) /\ Val(sel.id) # "")
       THEN Done(q1, JsonError(404, "Export not found",
                       ExportNotFoundMessage(ExportTypeOf(body), body.exportNameContains)))
     ELSE [q1 EXCEPT
             !.pc = "compute", !.selectedExportId = sel.id,
             !.selectedExportName = sel.name,
             !.exportRequest =
                Some(ExportRequest(Val(moda), Val(body.designId), Val(sel.id))),
             !.nCompute = @ + 1]

SessionReturns(r, sessions) ==
  /\ req[r].pc = "session"
  /\ \E s \in sessions :
       req' = [req EXCEPT ![r] =
                 IF s.kind = "throw"
                   THEN Done(@, DownloadError(SessionErrorMessage(s.message)))
                   ELSE AfterSession(@, s.data)]
  /\ UNCHANGED <<listening, isMongoConnected, cache, pendingPuts, stored>>
  /\ UNCHANGED storeVars
  /\ UNCHANGED testerVars

\* AfterCompute answering with an empty file when nothing was obtained
AfterCompute_SendEmpty(q, sed) ==
  LET x == ExtractContent(sed, Val(q.body).contentType)
      q1 == [q EXCEPT !.selectedExportData = Some(sed), !.pickedContent = x.pickedContent,
                      !.inlineBuffer = x.fileBuffer, !.downloadUrl = x.downloadUrl]
  IN IF NeedsFetch(x.fileBuffer, x.downloadUrl)
       THEN [q1 EXCEPT !.pc = "fetch", !.fetchedUrl = x.downloadUrl, !.nFetch = @ + 1]
     ELSE IF ~IsSome(x.fileBuffer)
       THEN [SendFile(q1, <<>>) EXCEPT !.fileBuffer = None]
     ELSE SendFile(q1, Val(x.fileBuffer))

\* the code after `await computeExports(..)` returned an entry for the export
AfterCompute(q, sed) ==
  LET x == ExtractContent(sed, Val(q.body).contentType)
      q1 == [q EXCEPT !.selectedExportData = Some(sed), !.pickedContent = x.pickedContent,
                      !.inlineBuffer = x.fileBuffer, !.downloadUrl = x.downloadUrl]
  IN IF NeedsFetch(x.fileBuffer, x.downloadUrl)
       THEN [q1 EXCEPT !.pc = "fetch", !.fetchedUrl = x.downloadUrl, !.nFetch = @ + 1]
     ELSE IF ~IsSome(x.fileBuffer)
       THEN Done(q1, JsonError(500, "No export content",
                       "No file content or URL returned by export"))
     ELSE SendFile(q1, Val(x.fileBuffer))

\* a finished step launches the cache write the handler prepared, if any
Launch(q) == IF IsSome(q.put) THEN pendingPuts \cup {Val(q.put)} ELSE pendingPuts

ComputeReturns(r, results) ==
  /\ req[r].pc = "compute"
  /\ \E c \in results :
       LET q == IF c.kind = "throw" THEN Done(req[r], DownloadError(c.message))
                ELSE IF c.kind = "missing"
                  THEN Done(req[r], JsonError(500, "Export missing",
                                      "Export not found in results"))
                ELSE AfterCompute(req[r], c.result)
       IN /\ req' = [req EXCEPT ![r] = q]
          /\ pendingPuts' = Launch(q)
  /\ UNCHANGED <<listening, isMongoConnected, cache, stored>>
  /\ UNCHANGED storeVars
  /\ UNCHANGED testerVars

\* FetchReturns fetching again after a non-success status
FetchReturns_Retry(r, fetches) ==
  /\ req[r].pc = "fetch"
  /\ \E f \in fetches :
       LET q0 == [req[r] EXCEPT !.fetchResponse = Some(f)]
           q == IF f.kind = "throw" THEN Done(req[r], DownloadError(f.message))
                ELSE IF f.kind = "notok" THEN [req[r] EXCEPT !.nFetch = @ + 1]
                ELSE SendFile(q0, f.body)
       IN /\ req' = [req EXCEPT ![r] = q]
          /\ pendingPuts' = Launch(q)
  /\ UNCHANGED <<listening, isMongoConnected, cache, stored>>
  /\ UNCHANGED storeVars
  /\ UNCHANGED testerVars

\* FetchReturns without the test of r.ok
FetchReturns_IgnoreStatus(r, fetches) ==
  /\ req[r].pc = "fetch"
  /\ \E f \in fetches :
       LET q0 == [req[r] EXCEPT !.fetchResponse = Some(f)]
           q == IF f.kind = "throw" THEN Done(req[r], DownloadError(f.message))
                ELSE SendFile(q0, f.body)
       IN /\ req' = [req EXCEPT ![r] = q]
          /\ pendingPuts' = Launch(q)
  /\ UNCHANGED <<listening, isMongoConnected, cache, stored>>
  /\ UNCHANGED storeVars
  /\ UNCHANGED testerVars

\* the code after `await fetch(downloadUrl)`; fetchResponse is the local `r`
FetchReturns(r, fetches) ==
  /\ req[r].pc = "fetch"
  /\ \E f \in fetches :
       LET q0 == [req[r] EXCEPT !.fetchResponse = Some(f)]
           q == IF f.kind = "throw" THEN Done(req[r], DownloadError(f.message))
                ELSE IF f.kind = "notok"
                  THEN Done(q0, JsonError(502, "Download failed",
                              "Failed to download export: "
                                \o ToStr(NatToString(f.status)) \o " " \o f.message))
                ELSE SendFile(q0, f.body)
       IN /\ req' = [req EXCEPT ![r] = q]
          /\ pendingPuts' = Launch(q)
  /\ UNCHANGED <<listening, isMongoConnected, cache, stored>>
  /\ UNCHANGED storeVars
  /\ UNCHANGED testerVars

\* a launched cache write reaches the store; `stored` remembers whose request
\* wrote the entry (put.origin is history, not an argument of the call)
PutSucceeds ==
  /\ \E p \in pendingPuts :
       /\ cache' = PutCachedExport(cache, p)
       /\ pendingPuts' = pendingPuts \ {p}
       /\ stored' = {s \in stored : s.key # p.key}
                      \cup {[key |-> p.key, body |-> p.origin, bytes |-> p.buffer]}
  /\ UNCHANGED <<listening, isMongoConnected, req>>
  /\ UNCHANGED storeVars
  /\ UNCHANGED testerVars

\* PutFails with the failure surfaced to a request
PutFails_Surfaced ==
  /\ \E p \in pendingPuts :
       /\ pendingPuts' = pendingPuts \ {p}
       /\ \E r \in DOMAIN req :
            req' = [req EXCEPT ![r] = Done(@, DownloadError("Cache store failed"))]
  /\ UNCHANGED <<listening, isMongoConnected, cache, stored>>
  /\ UNCHANGED storeVars
  /\ UNCHANGED testerVars

\* a launched cache write fails: logged by the .catch, nothing else
PutFails ==
  /\ \E p \in pendingPuts : pendingPuts' = pendingPuts \ {p}
  /\ UNCHANGED <<listening, isMongoConnected, cache, req, stored>>
  /\ UNCHANGED storeVars
  /\ UNCHANGED testerVars

(***************************************************************************)
(* The document endpoints: upload, version lookup and latest-per-name      *)
(* listing, over the collection.  A document is [id, name, uploadedAt];    *)
(* names are strings, uploadedAt is the clock value at insertion.          *)
(***************************************************************************)
MaxDocs == 3
MaxTime == 2

\* the white space parseInt skips, and the digits of base 16
WhiteSpaceChars == {" ", "\t", "\n", "\r"}
HexChars == DigitChars \o <<"a","b","c","d","e","f">>

RECURSIVE SkipWhiteSpace(_)
SkipWhiteSpace(s) ==
  IF s # <<>> /\ s[1] \in WhiteSpaceChars THEN SkipWhiteSpace(Tail(s)) ELSE s

IsDigitOf(c, base) ==
  LowerChar(c) \in Range(IF base = 16 THEN HexChars ELSE DigitChars)

DigitValue(c) == IndexOf(LowerChar(c), HexChars) - 1

\* the longest prefix of s made of digits of the base
RECURSIVE DigitPrefix(_, _)
DigitPrefix(s, base) ==
  IF s # <<>> /\ IsDigitOf(s[1], base)
    THEN <<s[1]>> \o DigitPrefix(Tail(s), base)
    ELSE <<>>

RECURSIVE DigitsValue(_, _, _)
DigitsValue(ds, base, acc) ==
  IF ds = <<>> THEN acc ELSE DigitsValue(Tail(ds), base, acc * base + DigitValue(ds[1]))

\* parseInt(s) with no radix: leading white space, an optional sign, an
\* optional 0x prefix, then the longest run of digits; None stands for NaN
ParseInt(s) ==
  LET t == SkipWhiteSpace(s)
      negative == t # <<>> /\ t[1] = "-"
      u == IF t # <<>> /\ t[1] \in {"-", "+"} THEN Tail(t) ELSE t
      hex == Len(u) >= 2 /\ u[1] = "0" /\ u[2] \in {"x", "X"}
      base == IF hex THEN 16 ELSE 10
      ds == DigitPrefix(IF hex THEN SubSeq(u, 3, Len(u)) ELSE u, base)
  IN IF ds = <<>> THEN None
     ELSE Some((IF negative THEN -1 ELSE 1) * DigitsValue(ds, base, 0))

\* the names a plain object inherits: designGroups[name] is not undefined
ObjectPrototypeKeys ==
  {"constructor", "toString", "valueOf", "hasOwnProperty", "isPrototypeOf",
   "propertyIsEnumerable", "toLocaleString", "__proto__", "__defineGetter__",
   "__defineSetter__", "__lookupGetter__", "__lookupSetter__"}

\* truthiness of an optional name
NameTruthy(o) == IsSome(o) /\ Val(o) # ""

Doc(id, name, uploadedAt) == [id |-> id, name |-> name, uploadedAt |-> uploadedAt]

NoDocResp ==
  [status |-> 0, error |-> None, message |-> None, doc |-> None,
   versionInfo |-> None, items |-> <<>>, totalVersions |-> None]

\* res.status(s).json({ error }) and res.status(s).json({ error, message })
DocError(status, error) == [NoDocResp EXCEPT !.status = status, !.error = Some(error)]
DocErrorMessage(status, error, message) ==
  [NoDocResp EXCEPT !.status = status, !.error = Some(error), !.message = Some(message)]

\* requireMongo
DatabaseUnavailable ==
  DocErrorMessage(503, "Database unavailable",
    "MongoDB is not connected. Please start MongoDB and restart the server.")

\* an exchange with a document endpoint: the request (endpoint, the name,
\* :id and :versionNumber it carries, the uploadedAt its body gives), whether
\* the database operation of the handler succeeds (dbOk), whether the
\* handler got as far as that operation (queried), and the answer
NoExchange ==
  [endpoint |-> "none", name |-> None, id |-> None, segment |-> <<>>, given |-> None,
   dbOk |-> TRUE, queried |-> FALSE, resp |-> NoDocResp]

Exchange(endpoint, dbOk) == [NoExchange EXCEPT !.endpoint = endpoint, !.dbOk = dbOk]

\* an _id the database generated (the n-th ObjectId) and an _id given as a
\* string; a path segment :id is the same pair: `new ObjectId(id)` yields
\* the n-th ObjectId for its 24 hex digits and throws for any other string,
\* which is then used as it is
ObjectIdOf(n) == [oid |-> n, str |-> ""]
StringId(str) == [oid |-> 0, str |-> str]

\* the body of an upload or an update: the fields the handlers depend on
DesignBody(name, id, uploadedAt) == [name |-> name, _id |-> id, uploadedAt |-> uploadedAt]

\* the position of the document with an id, 0 when there is none
Position(docs, id) ==
  IF \E i \in DOMAIN docs : docs[i].id = id
    THEN CHOOSE i \in DOMAIN docs : docs[i].id = id
    ELSE 0

\* the sequence without its i-th element
RemoveAt(docs, i) == SubSeq(docs, 1, i - 1) \o SubSeq(docs, i + 1, Len(docs))

\* the documents of the collection with a name, as a set
DocsNamed(docs, name) == {docs[i] : i \in {j \in DOMAIN docs : docs[j].name = name}}

\* find({name}).sort({uploadedAt: 1}): oldest first
AscendingOrders(S) ==
  {f \in [1..Cardinality(S) -> S] :
     /\ \A i, j \in 1..Cardinality(S) : i # j => f[i] # f[j]
     /\ \A i, j \in 1..Cardinality(S) : i < j => f[i].uploadedAt <= f[j].uploadedAt}

\* find({name}).sort({uploadedAt: -1}): every order the database may return,
\* documents with equal uploadedAt in any order
DescendingOrders(S) ==
  {f \in [1..Cardinality(S) -> S] :
     /\ \A i, j \in 1..Cardinality(S) : i # j => f[i] # f[j]
     /\ \A i, j \in 1..Cardinality(S) : i < j => f[i].uploadedAt >= f[j].uploadedAt}

\* GET /api/data/versions/:name/:versionNumber, given the sorted find result
VersionResponse(segment, versions) ==
  LET versionNum == ParseInt(segment) IN
  IF ~IsSome(versionNum) \/ Val(versionNum) < 0
    THEN DocErrorMessage(400, "Invalid version number",
           "Version number must be a non-negative integer (0 = current, 1 = previous, etc.)")
  ELSE IF Len(versions) = 0
    THEN DocError(404, "No versions found for this design name")
  ELSE IF Val(versionNum) >= Len(versions)
    THEN [DocErrorMessage(404, "Version not found",
            "Version " \o ToStr(NatToString(Val(versionNum)))
              \o " does not exist. Available versions: 0-"
              \o ToStr(NatToString(Len(versions) - 1)))
          EXCEPT !.totalVersions = Some(Len(versions))]
  ELSE [NoDocResp EXCEPT
          !.status = 200,
          !.doc = Some(versions[Val(versionNum) + 1]),
          !.versionInfo =
            Some([versionNumber |-> Val(versionNum), totalVersions |-> Len(versions),
                  isCurrent |-> Val(versionNum) = 0,
                  uploadedAt |-> versions[Val(versionNum) + 1].uploadedAt])]

\* item.name || 'Unnamed Item'
GroupName(d) == IF d.name # "" THEN d.name ELSE "Unnamed Item"

\* the keys of designGroups in the order they were created
RECURSIVE GroupKeys(_, _)
GroupKeys(docs, seen) ==
  IF docs = <<>> THEN <<>>
  ELSE IF GroupName(docs[1]) \in seen THEN GroupKeys(Tail(docs), seen)
  ELSE <<GroupName(docs[1])>> \o GroupKeys(Tail(docs), seen \cup {GroupName(docs[1])})

\* designGroups[name]: the documents pushed under a key, in find order
GroupOf(docs, key) == SelectSeq(docs, LAMBDA d : GroupName(d) = key)

\* Array.prototype.sort with (a, b) => time(b) - time(a): stable, newest
\* first, documents with equal time in their earlier order
RECURSIVE InsertByTime(_, _)
InsertByTime(sorted, d) ==
  IF sorted = <<>> THEN <<d>>
  ELSE IF sorted[1].uploadedAt >= d.uploadedAt
    THEN <<sorted[1]>> \o InsertByTime(Tail(sorted), d)
  ELSE <<d>> \o sorted

RECURSIVE SortNewestFirst(_)
SortNewestFirst(ds) ==
  IF ds = <<>> THEN <<>>
  ELSE InsertByTime(SortNewestFirst(SubSeq(ds, 1, Len(ds) - 1)), ds[Len(ds)])

LatestItem(versions) ==
  [id |-> versions[1].id, name |-> GroupName(versions[1]),
   uploadedAt |-> versions[1].uploadedAt, isLatestVersion |-> TRUE,
   totalVersions |-> Len(versions)]

\* GET /api/data/list_latest and GET /api/designs/list, given find({}).
\* designGroups is a plain object: under an inherited name designGroups[name]
\* is not undefined and has no push, so the grouping throws.
ListLatestResponse(docs) ==
  IF \E i \in DOMAIN docs : GroupName(docs[i]) \in ObjectPrototypeKeys
    THEN DocError(500, "Failed to fetch design list")
    ELSE LET keys == GroupKeys(docs, {}) IN
         [NoDocResp EXCEPT
            !.status = 200,
            !.items = [i \in DOMAIN keys |->
                         LatestItem(SortNewestFirst(GroupOf(docs, keys[i])))]]

\* time passes
Tick ==
  /\ now < MaxTime
  /\ now' = now + 1
  /\ UNCHANGED <<listening, isMongoConnected, collection, last, inserted>>
  /\ UNCHANGED downloadVars
  /\ UNCHANGED testerVars

\* Upload replacing the newest document of the same name when there is one
Upload_Overwrite(bodies) ==
  /\ listening
  /\ inserted < MaxDocs
  /\ \E body \in bodies, dbOk \in BOOLEAN :
       LET x == [Exchange("upload", dbOk) EXCEPT !.name = body.name, !.id = body._id,
                                                 !.given = body.uploadedAt]
           id == IF IsSome(body._id) THEN Val(body._id) ELSE ObjectIdOf(inserted + 1)
           same == {i \in DOMAIN collection : collection[i].name = Val(body.name)}
       IN IF ~isMongoConnected
            THEN /\ last' = [x EXCEPT !.resp = DatabaseUnavailable]
                 /\ UNCHANGED <<collection, inserted>>
          ELSE IF ~NameTruthy(body.name)
            THEN /\ last' = [x EXCEPT !.resp = DocErrorMessage(400, "Invalid design data",
                                                  "Design must have a name field")]
                 /\ UNCHANGED <<collection, inserted>>
          ELSE IF ~dbOk \/ Position(collection, id) # 0
            THEN /\ last' = [x EXCEPT !.queried = TRUE,
                                      !.resp = DocError(500, "Failed to upload design")]
                 /\ UNCHANGED <<collection, inserted>>
          ELSE /\ collection' =
                    IF same = {} THEN Append(collection, Doc(id, Val(body.name), now))
                    ELSE [collection EXCEPT ![CHOOSE i \in same : \A j \in same : j <= i] =
                            Doc(id, Val(body.name), now)]
               /\ inserted' = IF IsSome(body._id) THEN inserted ELSE inserted + 1
               /\ last' = [x EXCEPT !.queried = TRUE,
                                    !.resp =
                             [NoDocResp EXCEPT
                                !.status = 201,
                                !.message = Some("Design uploaded successfully"),
                                !.doc = Some(Doc(id, Val(body.name), now))]]
  /\ UNCHANGED <<listening, isMongoConnected, now>>
  /\ UNCHANGED downloadVars
  /\ UNCHANGED testerVars

\* Upload with the body's fields spread after the stamp
Upload_BodyStamp(bodies) ==
  /\ listening
  /\ inserted < MaxDocs
  /\ \E body \in bodies, dbOk \in BOOLEAN :
       LET x == [Exchange("upload", dbOk) EXCEPT !.name = body.name, !.id = body._id,
                                                 !.given = body.uploadedAt]
           id == IF IsSome(body._id) THEN Val(body._id) ELSE ObjectIdOf(inserted + 1)
           at == IF IsSome(body.uploadedAt) THEN Val(body.uploadedAt) ELSE now
       IN IF ~isMongoConnected
            THEN /\ last' = [x EXCEPT !.resp = DatabaseUnavailable]
                 /\ UNCHANGED <<collection, inserted>>
          ELSE IF ~NameTruthy(body.name)
            THEN /\ last' = [x EXCEPT !.resp = DocErrorMessage(400, "Invalid design data",
                                                  "Design must have a name field")]
                 /\ UNCHANGED <<collection, inserted>>
          ELSE IF ~dbOk \/ Position(collection, id) # 0
            THEN /\ last' = [x EXCEPT !.queried = TRUE,
                                      !.resp = DocError(500, "Failed to upload design")]
                 /\ UNCHANGED <<collection, inserted>>
          ELSE /\ collection' = Append(collection, Doc(id, Val(body.name), at))
               /\ inserted' = IF IsSome(body._id) THEN inserted ELSE inserted + 1
               /\ last' = [x EXCEPT !.queried = TRUE,
                                    !.resp =
                             [NoDocResp EXCEPT
                                !.status = 201,
                                !.message = Some("Design uploaded successfully"),
                                !.doc = Some(Doc(id, Val(body.name), at))]]
  /\ UNCHANGED <<listening, isMongoConnected, now>>
  /\ UNCHANGED downloadVars
  /\ UNCHANGED testerVars

\* POST /api/data/upload: insertOne({...designData, uploadedAt: now}); the
\* database generates the _id unless the body brings one, and rejects an
\* _id that a document already has
Upload(bodies) ==
  /\ listening
  /\ inserted < MaxDocs
  /\ \E body \in bodies, dbOk \in BOOLEAN :
       LET x == [Exchange("upload", dbOk) EXCEPT !.name = body.name, !.id = body._id,
                                                 !.given = body.uploadedAt]
           id == IF IsSome(body._id) THEN Val(body._id) ELSE ObjectIdOf(inserted + 1)
       IN IF ~isMongoConnected
            THEN /\ last' = [x EXCEPT !.resp = DatabaseUnavailable]
                 /\ UNCHANGED <<collection, inserted>>
          ELSE IF ~NameTruthy(body.name)
            THEN /\ last' = [x EXCEPT !.resp = DocErrorMessage(400, "Invalid design data",
                                                  "Design must have a name field")]
                 /\ UNCHANGED <<collection, inserted>>
          ELSE IF ~dbOk \/ Position(collection, id) # 0
            THEN /\ last' = [x EXCEPT !.queried = TRUE,
                                      !.resp = DocError(500, "Failed to upload design")]
                 /\ UNCHANGED <<collection, inserted>>
          ELSE /\ collection' = Append(collection, Doc(id, Val(body.name), now))
               /\ inserted' = IF IsSome(body._id) THEN inserted ELSE inserted + 1
               /\ last' = [x EXCEPT !.queried = TRUE,
                                    !.resp =
                             [NoDocResp EXCEPT
                                !.status = 201,
                                !.message = Some("Design uploaded successfully"),
                                !.doc = Some(Doc(id, Val(body.name), now))]]
  /\ UNCHANGED <<listening, isMongoConnected, now>>
  /\ UNCHANGED downloadVars
  /\ UNCHANGED testerVars

\* POST /api/data/upload with a body of a name alone
UploadDesign(names) == Upload({DesignBody(name, None, None) : name \in names})

\* PUT /api/data/:id: updateOne(filter, {$set: {...jsonData, uploadedAt: new Date()}})
Update(ids, bodies) ==
  /\ listening
  /\ \E id \in ids, body \in bodies, dbOk \in BOOLEAN :
       LET x == [Exchange("update", dbOk) EXCEPT !.name = body.name, !.id = Some(id),
                                                 !.given = body.uploadedAt]
           i == Position(collection, id)
       IN IF ~isMongoConnected
            THEN /\ last' = [x EXCEPT !.resp = DatabaseUnavailable]
                 /\ UNCHANGED collection
          ELSE IF ~dbOk
            THEN /\ last' = [x EXCEPT !.queried = TRUE,
                                      !.resp = DocError(500, "Failed to update data")]
                 /\ UNCHANGED collection
          ELSE IF i = 0
            THEN /\ last' = [x EXCEPT !.queried = TRUE,
                                      !.resp = DocError(404, "Data not found")]
                 /\ UNCHANGED collection
          ELSE /\ collection' =
                    [collection EXCEPT
                       ![i] = Doc(id, IF IsSome(body.name) THEN Val(body.name)
                                      ELSE collection[i].name, now)]
               /\ last' = [x EXCEPT !.queried = TRUE,
                                    !.resp = [NoDocResp EXCEPT
                                                !.status = 200,
                                                !.message = Some("Data updated successfully")]]
  /\ UNCHANGED <<listening, isMongoConnected, now, inserted>>
  /\ UNCHANGED downloadVars
  /\ UNCHANGED testerVars

\* Delete without requireMongo: the handler runs on a collection that was
\* never assigned, and its catch answers
Delete_Unguarded(ids) ==
  /\ listening
  /\ \E id \in ids, dbOk \in BOOLEAN :
       LET x == [Exchange("delete", dbOk) EXCEPT !.id = Some(id)]
           i == Position(collection, id)
       IN IF ~isMongoConnected \/ ~dbOk
            THEN /\ last' = [x EXCEPT !.queried = TRUE,
                                      !.resp = DocError(500, "Failed to delete data")]
                 /\ UNCHANGED collection
          ELSE IF i = 0
            THEN /\ last' = [x EXCEPT !.queried = TRUE,
                                      !.resp = DocError(404, "Data not found")]
                 /\ UNCHANGED collection
          ELSE /\ collection' = RemoveAt(collection, i)
               /\ last' = [x EXCEPT !.queried = TRUE,
                                    !.resp = [NoDocResp EXCEPT
                                                !.status = 200,
                                                !.message = Some("Data deleted successfully")]]
  /\ UNCHANGED <<listening, isMongoConnected, now, inserted>>
  /\ UNCHANGED downloadVars
  /\ UNCHANGED testerVars

\* DELETE /api/data/:id
Delete(ids) ==
  /\ listening
  /\ \E id \in ids, dbOk \in BOOLEAN :
       LET x == [Exchange("delete", dbOk) EXCEPT !.id = Some(id)]
           i == Position(collection, id)
       IN IF ~isMongoConnected
            THEN /\ last' = [x EXCEPT !.resp = DatabaseUnavailable]
                 /\ UNCHANGED collection
          ELSE IF ~dbOk
            THEN /\ last' = [x EXCEPT !.queried = TRUE,
                                      !.resp = DocError(500, "Failed to delete data")]
                 /\ UNCHANGED collection
          ELSE IF i = 0
            THEN /\ last' = [x EXCEPT !.queried = TRUE,
                                      !.resp = DocError(404, "Data not found")]
                 /\ UNCHANGED collection
          ELSE /\ collection' = RemoveAt(collection, i)
               /\ last' = [x EXCEPT !.queried = TRUE,
                                    !.resp = [NoDocResp EXCEPT
                                                !.status = 200,
                                                !.message = Some("Data deleted successfully")]]
  /\ UNCHANGED <<listening, isMongoConnected, now, inserted>>
  /\ UNCHANGED downloadVars
  /\ UNCHANGED testerVars

\* whether parseInt of the segment passes the handler's validation
ValidVersionNumber(segment) == IsSome(ParseInt(segment)) /\ Val(ParseInt(segment)) >= 0

\* GetVersion with the versions sorted oldest first
GetVersion_OldestFirst(names, segments) ==
  /\ listening
  /\ \E name \in names, segment \in segments, dbOk \in BOOLEAN :
       \E versions \in AscendingOrders(DocsNamed(collection, name)) :
         last' = [Exchange("version", dbOk) EXCEPT
                    !.name = Some(name), !.segment = segment,
                    !.queried = isMongoConnected /\ ValidVersionNumber(segment),
                    !.resp = IF ~isMongoConnected THEN DatabaseUnavailable
                             ELSE IF ~dbOk /\ ValidVersionNumber(segment)
                               THEN DocError(500, "Failed to fetch design version")
                             ELSE VersionResponse(segment, versions)]
  /\ UNCHANGED <<listening, isMongoConnected, collection, now, inserted>>
  /\ UNCHANGED downloadVars
  /\ UNCHANGED testerVars

\* GET /api/data/versions/:name/:versionNumber
GetVersion(names, segments) ==
  /\ listening
  /\ \E name \in names, segment \in segments, dbOk \in BOOLEAN :
       \E versions \in DescendingOrders(DocsNamed(collection, name)) :
         last' = [Exchange("version", dbOk) EXCEPT
                    !.name = Some(name), !.segment = segment,
                    !.queried = isMongoConnected /\ ValidVersionNumber(segment),
                    !.resp = IF ~isMongoConnected THEN DatabaseUnavailable
                             ELSE IF ~dbOk /\ ValidVersionNumber(segment)
                               THEN DocError(500, "Failed to fetch design version")
                             ELSE VersionResponse(segment, versions)]
  /\ UNCHANGED <<listening, isMongoConnected, collection, now, inserted>>
  /\ UNCHANGED downloadVars
  /\ UNCHANGED testerVars

\* GET /api/data/list_latest, GET /api/designs/list
ListLatest ==
  /\ listening
  /\ \E dbOk \in BOOLEAN :
       last' = [Exchange("list", dbOk) EXCEPT
                  !.queried = isMongoConnected,
                  !.resp = IF ~isMongoConnected THEN DatabaseUnavailable
                           ELSE IF ~dbOk THEN DocError(500, "Failed to fetch design list")
                           ELSE ListLatestResponse(collection)]
  /\ UNCHANGED <<listening, isMongoConnected, collection, now, inserted>>
  /\ UNCHANGED downloadVars
  /\ UNCHANGED testerVars

(***************************************************************************)
(* The browser tester (main.ts): the module state sessionId, sessionData,  *)
(* isConnected and currentBackendTicket, the controls the handlers read    *)
(* and write, and one action per handler stretch between two awaits.       *)
(***************************************************************************)
MaxCalls == 3

\* import.meta.env: each ticket is configured or undefined
Env(primary, alt) == [EXPORT_BACKEND |-> primary, ALT_EXPORT_BACKEND |-> alt]
ConfiguredEnv == Env(Some("ticket-primary"), Some("ticket-alt"))

\* the state when the module has been loaded; sessionTicket and event are
\* history: the ticket the present session was created with, and the
\* handler that ran last
TesterStart(env) ==
  [env |-> env,
   currentBackendTicket |-> env.EXPORT_BACKEND,
   sessionId |-> None, sessionData |-> None, isConnected |-> FALSE,
   sessionTicket |-> None,
   exportBtnDisabled |-> TRUE, connectBtnDisabled |-> FALSE,
   connectBtnText |-> "Connect to Backend",
   exportStatus |-> "Not started",
   jsonInput |-> <<>>,
   event |-> "load"]

\* truthiness of an optional string held as a string: undefined and '' are falsy
IdTruthy(o) == IsSome(o) /\ Val(o) # ""

RECURSIVE TrimEnd(_)
TrimEnd(str) ==
  IF str # <<>> /\ str[Len(str)] \in WhiteSpaceChars
    THEN TrimEnd(SubSeq(str, 1, Len(str) - 1))
    ELSE str

\* String.prototype.trim
TrimString(str) == TrimEnd(SkipWhiteSpace(str))

CreateSessionCall(ticket) ==
  [kind |-> "createSessionByTicket", ticket |-> ticket, sessionId |-> "",
   exportRequest |-> None]
ComputeExportsCall(sid, exportRequest) ==
  [kind |-> "computeExports", ticket |-> "", sessionId |-> sid,
   exportRequest |-> Some(exportRequest)]

\* DisconnectFromBackend forgetting to reset the flag
DisconnectFromBackend_KeepFlag(t) ==
  IF ~IdTruthy(t.sessionId) THEN t
  ELSE [t EXCEPT !.sessionId = None, !.sessionData = None,
                 !.sessionTicket = None, !.exportStatus = "Not started",
                 !.exportBtnDisabled = TRUE, !.connectBtnText = "Connect to Backend"]

\* disconnectFromBackend
DisconnectFromBackend(t) ==
  IF ~IdTruthy(t.sessionId) THEN t
  ELSE [t EXCEPT !.sessionId = None, !.sessionData = None, !.isConnected = FALSE,
                 !.sessionTicket = None, !.exportStatus = "Not started",
                 !.exportBtnDisabled = TRUE, !.connectBtnText = "Connect to Backend"]

\* the click handler of connectBtn, up to the await of createSessionByTicket
ClickConnect ==
  /\ ~tester.connectBtnDisabled
  /\ IF tester.isConnected
       THEN /\ tester' = [DisconnectFromBackend(tester) EXCEPT !.event = "connectBtn click"]
            /\ UNCHANGED remote
     ELSE IF ~IdTruthy(tester.currentBackendTicket)
       THEN /\ tester' = [tester EXCEPT !.event = "connectBtn click"]
            /\ UNCHANGED remote
     ELSE /\ Len(remote) < MaxCalls
          /\ tester' =
               [(IF tester.isConnected /\ IdTruthy(tester.sessionId)
                   THEN DisconnectFromBackend(tester) ELSE tester)
                EXCEPT !.connectBtnDisabled = TRUE, !.event = "connectBtn click"]
          /\ remote' = Append(remote, CreateSessionCall(Val(tester.currentBackendTicket)))
  /\ UNCHANGED serverVars

\* connectToBackend after createSessionByTicket returned or threw
CreateSessionReturns(responses) ==
  /\ \E i \in DOMAIN remote, response \in responses :
       /\ remote[i].kind = "createSessionByTicket"
       /\ remote' = RemoveAt(remote, i)
       /\ tester' =
            IF response.kind = "ok"
              THEN [tester EXCEPT
                      !.sessionData = Some(response.data),
                      !.sessionId = Some(response.data.sessionId),
                      !.isConnected = TRUE,
                      !.sessionTicket = Some(remote[i].ticket),
                      !.exportBtnDisabled = FALSE,
                      !.connectBtnText = "Disconnect",
                      !.connectBtnDisabled = FALSE,
                      !.event = "createSessionByTicket returned"]
              ELSE [tester EXCEPT
                      !.isConnected = FALSE, !.sessionId = None, !.sessionData = None,
                      !.sessionTicket = None,
                      !.exportBtnDisabled = TRUE,
                      !.connectBtnDisabled = FALSE,
                      !.event = "createSessionByTicket returned"]
  /\ UNCHANGED serverVars

\* the first parameter named moda-json, in Object.entries order
TesterModaJsonInputId(data) ==
  IF IsSome(data.parameters)
    THEN LET ps == Val(data.parameters)
             M == {i \in DOMAIN ps : ps[i].name = s_moda_json}
         IN IF M = {} THEN None
            ELSE Some(ps[CHOOSE k \in M : \A j \in M : k <= j].id)
    ELSE None

\* Object.entries(sessionData.exports), [] when there is no exports object
TesterExports(data) == IF IsSome(data.exports) THEN Val(data.exports) ELSE <<>>

TesterExportRequest(modaJsonInputId, jsonUrlValue, exportId) ==
  [parameters |-> <<[id |-> modaJsonInputId, value |-> jsonUrlValue]>>,
   exports |-> <<exportId>>]

\* whether triggerExport gets as far as computeExports
CanSubmit(t) ==
  /\ IdTruthy(t.sessionId)
  /\ IsSome(t.sessionData)
  /\ Len(TesterExports(Val(t.sessionData))) > 0
  /\ IdTruthy(TesterModaJsonInputId(Val(t.sessionData)))
  /\ TrimString(t.jsonInput) # <<>>

\* TriggerExport submitting whatever the URL field holds
TriggerExport_NoUrlCheck ==
  /\ ~tester.exportBtnDisabled
  /\ IF ~IdTruthy(tester.sessionId) \/ ~IsSome(tester.sessionData)
       THEN /\ tester' = [tester EXCEPT !.event = "exportBtn click"]
            /\ UNCHANGED remote
     ELSE IF ~(/\ Len(TesterExports(Val(tester.sessionData))) > 0
               /\ IdTruthy(TesterModaJsonInputId(Val(tester.sessionData))))
       THEN /\ tester' = [tester EXCEPT !.exportStatus = "Export failed",
                                        !.exportBtnDisabled = FALSE,
                                        !.event = "exportBtn click"]
            /\ UNCHANGED remote
     ELSE /\ Len(remote) < MaxCalls
          /\ tester' = [tester EXCEPT !.exportStatus = "Requesting",
                                      !.exportBtnDisabled = TRUE,
                                      !.event = "exportBtn click"]
          /\ remote' =
               Append(remote,
                 ComputeExportsCall(Val(tester.sessionId),
                   TesterExportRequest(Val(TesterModaJsonInputId(Val(tester.sessionData))),
                                       TrimString(tester.jsonInput),
                                       TesterExports(Val(tester.sessionData))[1].id)))
  /\ UNCHANGED serverVars

\* the click handler of exportBtn (triggerExport), up to the await of
\* computeExports; a throw before it ends in the catch and the finally
TriggerExport ==
  /\ ~tester.exportBtnDisabled
  /\ IF ~IdTruthy(tester.sessionId) \/ ~IsSome(tester.sessionData)
       THEN /\ tester' = [tester EXCEPT !.event = "exportBtn click"]
            /\ UNCHANGED remote
     ELSE IF ~CanSubmit(tester)
       THEN /\ tester' = [tester EXCEPT !.exportStatus = "Export failed",
                                        !.exportBtnDisabled = FALSE,
                                        !.event = "exportBtn click"]
            /\ UNCHANGED remote
     ELSE /\ Len(remote) < MaxCalls
          /\ tester' = [tester EXCEPT !.exportStatus = "Requesting",
                                      !.exportBtnDisabled = TRUE,
                                      !.event = "exportBtn click"]
          /\ remote' =
               Append(remote,
                 ComputeExportsCall(Val(tester.sessionId),
                   TesterExportRequest(Val(TesterModaJsonInputId(Val(tester.sessionData))),
                                       TrimString(tester.jsonInput),
                                       TesterExports(Val(tester.sessionData))[1].id)))
  /\ UNCHANGED serverVars

\* the text of exportStatus after computeExports returned: the call threw,
\* the export is not in the results, it has no content, no URL, or both
ExportOutcome(kind) ==
  CASE kind = "throw" -> "Export failed"
    [] kind = "missing" -> "Export failed"
    [] kind = "nocontent" -> "No content returned"
    [] kind = "nourl" -> "No download URL"
    [] OTHER -> "Export ready!"

\* triggerExport after computeExports returned or threw, with its finally
ComputeExportsReturns(kinds) ==
  /\ \E i \in DOMAIN remote, kind \in kinds :
       /\ remote[i].kind = "computeExports"
       /\ remote' = RemoveAt(remote, i)
       /\ tester' = [tester EXCEPT !.exportStatus = ExportOutcome(kind),
                                   !.exportBtnDisabled = FALSE,
                                   !.event = "computeExports returned"]
  /\ UNCHANGED serverVars

\* SelectBackend clearing the session
SelectBackend_Disconnects ==
  /\ \E selected \in {"primary", "alt"} :
       /\ selected = "alt" => IsSome(tester.env.ALT_EXPORT_BACKEND)
       /\ tester' = [DisconnectFromBackend(tester) EXCEPT
                       !.event = "backendSelector change",
                       !.currentBackendTicket =
                         IF selected = "primary" THEN tester.env.EXPORT_BACKEND
                         ELSE tester.env.ALT_EXPORT_BACKEND]
  /\ UNCHANGED remote
  /\ UNCHANGED serverVars

\* the change listener of backendSelector; the alt option is disabled when
\* ALT_EXPORT_BACKEND is not configured
SelectBackend ==
  /\ \E selected \in {"primary", "alt"} :
       /\ selected = "alt" => IsSome(tester.env.ALT_EXPORT_BACKEND)
       /\ tester' = [tester EXCEPT
                       !.event = "backendSelector change",
                       !.currentBackendTicket =
                         IF selected = "primary" THEN tester.env.EXPORT_BACKEND
                         ELSE tester.env.ALT_EXPORT_BACKEND]
  /\ UNCHANGED remote
  /\ UNCHANGED serverVars

\* the user types into jsonInput
EditJsonInput(values) ==
  /\ \E v \in values : tester' = [tester EXCEPT !.jsonInput = v, !.event = "jsonInput edit"]
  /\ UNCHANGED remote
  /\ UNCHANGED serverVars

(***************************************************************************)
(* Inputs                                                                  *)
(***************************************************************************)
s_abc == <<"a","b","c">>
s_text_x_obj == <<"t","e","x","t","/","x","-","o","b","j">>
s_QUJD == <<"Q","U","J","D">>
s_url1 == <<"h","t","t","p","s",":","/","/","c","d","n","/","f","1">>

Body(designId, exportType, exportNameContains, contentType, bypassCache) ==
  [designId |-> designId, shapediverEndpoint |-> None, exportType |-> exportType,
   exportNameContains |-> exportNameContains, contentType |-> contentType,
   bypassCache |-> bypassCache]

Entry(contentType, format, data, href) ==
  [contentType |-> contentType, format |-> format, data |-> data, content |-> AbsentP,
   href |-> href, url |-> None, downloadUrl |-> None, link |-> None]

\* a result with a content array
ArrayResult(entries) ==
  [contentArray |-> Some(entries), data |-> AbsentP, content |-> AbsentP, format |-> None,
   href |-> None, url |-> None, downloadUrl |-> None, link |-> None]

\* a result without a content array
DirectResult(format, data, href) ==
  [contentArray |-> None, data |-> data, content |-> AbsentP, format |-> format,
   href |-> href, url |-> None, downloadUrl |-> None, link |-> None]

EmptySession == [sessionId |-> "", parameters |-> None, exports |-> None]
SessionThrows(m) == [kind |-> "throw", message |-> m, data |-> EmptySession]
SessionOk(d) == [kind |-> "ok", message |-> "", data |-> d]

ComputeThrows(m) == [kind |-> "throw", message |-> m, result |-> DirectResult(None, AbsentP, None)]
ComputeMissing == [kind |-> "missing", message |-> "", result |-> DirectResult(None, AbsentP, None)]
ComputeOk(sed) == [kind |-> "ok", message |-> "", result |-> sed]

FetchThrows(m) == [kind |-> "throw", message |-> m, status |-> 0, body |-> <<>>]
FetchNotOk(status, text) == [kind |-> "notok", message |-> text, status |-> status, body |-> <<>>]
FetchOk(bytes) == [kind |-> "ok", message |-> "OK", status |-> 200, body |-> bytes]

Param(id, name) == [id |-> id, name |-> name]
Export(id, name, type) == [id |-> id, name |-> name, type |-> type]

ModaParams == Some(<<Param("p0", <<"u","n","i","t","s">>), Param("p1", s_moda_json)>>)

\* a session with the moda-json parameter and one export of type download
PlainSession ==
  [sessionId |-> "s1", parameters |-> ModaParams,
   exports |-> Some(<<Export("e1", Some(<<"R","e","p","o","r","t">>), Some(s_download))>>)]

(***************************************************************************)
(* Spec: the download endpoint with its cache, requests one after another  *)
(***************************************************************************)
CacheBodies ==
  {Body(None, None, None, None, FALSE)} \cup
  {Body(Some(s_abc), None, None, ct, bp) :
     ct \in {None, Some(s_application_pdf), Some(s_text_x_obj)},
     bp \in BOOLEAN}

CacheSessions == {SessionThrows("ECONNRESET"), SessionOk(PlainSession)}

CacheResults ==
  {ComputeThrows("Request failed with status code 500"),
   ComputeMissing,
   \* inline pdf in a content array
   ComputeOk(ArrayResult(<<Entry(None, Some(s_pdf), StringP(s_QUJD), None)>>)),
   \* nothing but a URL on the result object
   ComputeOk(DirectResult(None, AbsentP, Some(s_url1)))}

CacheFetches == {FetchNotOk(404, "Not Found"), FetchOk(<<1, 2>>)}

Init ==
  /\ listening = FALSE
  /\ isMongoConnected = FALSE
  /\ cache = <<>>
  /\ pendingPuts = {}
  /\ req = [r \in {1} |-> IdleReq]
  /\ stored = {}
  /\ collection = <<>>
  /\ now = 0
  /\ last = NoExchange
  /\ inserted = 0
  /\ tester = TesterStart(ConfiguredEnv)
  /\ remote = <<>>

Next ==
  \/ StartServer
  \/ \E r \in DOMAIN req : ReceiveDownload(r, CacheBodies)
  \/ \E r \in DOMAIN req : CacheProbeReturns(r)
  \/ \E r \in DOMAIN req : SessionReturns(r, CacheSessions)
  \/ \E r \in DOMAIN req : ComputeReturns(r, CacheResults)
  \/ \E r \in DOMAIN req : FetchReturns(r, CacheFetches)
  \/ PutSucceeds
  \/ PutFails

Spec == Init /\ [][Next]_vars

(***************************************************************************)
(* Properties of the cache probe (Spec)                                    *)
(***************************************************************************)
\* the step in which `await getCachedExport(..)` returns to request r
ProbeReturned(r) == req[r].pc = "probe" /\ req'[r].pc # "probe"

\* C1: a request with bypassCache=false whose criteria have a cache entry is
\* answered from the cache: no session, no compute call, no URL fetch, and
\* the entry's bytes, content type and filename with X-Cache: HIT.
C1_CacheHitServedVerbatim ==
  [][\A r \in DOMAIN req :
       LET key == ProbeKey(Val(req[r].body)) IN
       (ProbeReturned(r) /\ key \in DOMAIN cache) =>
         /\ req'[r].pc = "done"
         /\ req'[r].nSession = 0 /\ req'[r].nCompute = 0 /\ req'[r].nFetch = 0
         /\ req'[r].nPut = 0
         /\ req'[r].resp.status = 200
         /\ req'[r].resp.xCache = "HIT"
         /\ req'[r].resp.bytes = Some(cache[key].buffer)
         /\ req'[r].resp.contentType = Some(cache[key].contentType)
         /\ req'[r].resp.contentDisposition
              = Some(s_attachment \o cache[key].filename \o <<"\"">>)
         /\ req'[r].resp.contentLength = Some(NatToString(Len(cache[key].buffer)))]_vars

\* a request was answered from a cache entry that is still there
C1_Witness ==
  \E r \in DOMAIN req :
    /\ req[r].pc = "done"
    /\ ~Val(req[r].body).bypassCache
    /\ req[r].resp.xCache = "HIT"
    /\ req[r].nSession = 0
    /\ ProbeKey(Val(req[r].body)) \in DOMAIN cache
    /\ req[r].resp.bytes = Some(cache[ProbeKey(Val(req[r].body))].buffer)

\* C2: once a request with bypassCache=false has resolved and its cache write
\* has completed, the same body is answered as a cache hit with the same bytes.
C2_RepeatIsCacheHit ==
  [][\A r \in DOMAIN req :
       ProbeReturned(r) =>
         \A s \in stored :
           s.body = Val(req[r].body) =>
             /\ req'[r].resp.xCache = "HIT"
             /\ req'[r].nSession = 0
             /\ req'[r].resp.bytes = Some(s.bytes)]_vars

(***************************************************************************)
(* SpecDiscovery: parameter and export discovery over many session         *)
(* descriptors (cache bypassed, so no cache action can fire)               *)
(***************************************************************************)
s_DOWNLOAD == <<"D","O","W","N","L","O","A","D">>
s_Download == <<"D","o","w","n","l","o","a","d">>
s_data == <<"d","a","t","a">>
s_PDF == <<"P","D","F">>
s_csv == <<"c","s","v">>

DiscBodies ==
  {Body(Some(s_abc), t, n, None, TRUE) :
     t \in {None, Some(s_DOWNLOAD), Some(s_data)},
     n \in {None, Some(<<>>), Some(s_PDF), Some(s_csv)}}

DiscExports ==
  {Export("e1", Some(<<"R","e","p","o","r","t"," ","p","d","f">>), Some(s_Download)),
   Export("e2", Some(<<"S","h","e","e","t"," ","C","S","V">>), Some(s_download)),
   Export("e3", Some(<<"r","a","w">>), Some(s_data)),
   Export("e4", None, Some(s_download)),
   Export("e5", Some(<<"p","d","f"," ","n","o","t","e","s">>), None)}

\* export mappings: up to two distinct exports in either order, and one of three
DiscExportLists ==
  {<<>>}
  \cup {<<a>> : a \in DiscExports}
  \cup {p \in DiscExports \X DiscExports : p[1] # p[2]}
  \cup {<<Export("e3", Some(<<"r","a","w">>), Some(s_data)),
          Export("e2", Some(<<"S","h","e","e","t"," ","C","S","V">>), Some(s_download)),
          Export("e1", Some(<<"R","e","p","o","r","t"," ","p","d","f">>), Some(s_Download))>>}

DiscSessions ==
  {SessionThrows("ECONNRESET")}
  \cup {SessionOk([sessionId |-> "s1", parameters |-> ModaParams, exports |-> Some(es)]) :
          es \in DiscExportLists}
  \cup {SessionOk([sessionId |-> "s1", parameters |-> ModaParams, exports |-> None])}
  \cup {SessionOk([sessionId |-> "s1", parameters |-> ps, exports |-> Some(es)]) :
          ps \in {None, Some(<<Param("p0", <<"u","n","i","t","s">>)>>)},
          es \in {<<>>, <<Export("e3", Some(<<"r","a","w">>), Some(s_data))>>,
                  <<Export("e4", None, Some(s_download))>>}}

DiscResults ==
  {ComputeMissing,
   ComputeOk(DirectResult(Some(s_pdf), StringP(s_QUJD), None)),
   ComputeOk(DirectResult(None, AbsentP, Some(s_url1)))}

DiscFetches == {FetchOk(<<1, 2>>)}

NextDiscovery ==
  \/ StartServer
  \/ \E r \in DOMAIN req : ReceiveDownload(r, DiscBodies)
  \/ \E r \in DOMAIN req : SessionReturns(r, DiscSessions)
  \/ \E r \in DOMAIN req : ComputeReturns(r, DiscResults)
  \/ \E r \in DOMAIN req : FetchReturns(r, DiscFetches)

SpecDiscovery == Init /\ [][NextDiscovery]_vars

\* the export mapping of a session, in iteration order ('' when it has none)
ExportsOf(sessionData) ==
  IF IsSome(sessionData.exports) THEN Val(sessionData.exports) ELSE <<>>

\* export i has the requested type, compared case-insensitively
HasRequestedType(e, body) ==
  ToLowerCase(StrOrEmpty(e.type)) = ToLowerCase(ExportTypeOf(body))

\* export i passes the name filter, when one is supplied
PassesNameFilter(e, body) ==
  IsSome(body.exportNameContains) =>
    \E k \in 1..(Len(StrOrEmpty(e.name)) + 1) :
      OccursAt(ToLowerCase(Val(body.exportNameContains)), ToLowerCase(StrOrEmpty(e.name)), k)

\* export selection has run for request r
SelectionRan(r) == IsSome(req[r].sessionData) /\ IsSome(req[r].modaJsonInputId)

\* C3: the selected export is the first one, in the mapping's iteration order,
\* with the requested type (case-insensitive) and, when a name filter is
\* supplied, a name containing it (case-insensitive); none is selected exactly
\* when none matches.  The selection is a function of descriptor and criteria.
C3_FirstMatchingExportSelected ==
  \A r \in DOMAIN req :
    SelectionRan(r) =>
      LET body == Val(req[r].body)
          es == ExportsOf(Val(req[r].sessionData))
          M == {i \in DOMAIN es : HasRequestedType(es[i], body) /\ PassesNameFilter(es[i], body)}
      IN IF M = {}
           THEN req[r].selectedExportId = None
           ELSE \E i \in M : /\ \A j \in M : i <= j
                             /\ req[r].selectedExportId = Some(es[i].id)

\* a later export also matched, and the earlier one was selected
C3_Witness ==
  \E r \in DOMAIN req :
    /\ SelectionRan(r)
    /\ LET body == Val(req[r].body)
           es == ExportsOf(Val(req[r].sessionData))
       IN /\ Len(es) >= 2
          /\ IsSome(body.exportNameContains)
          /\ HasRequestedType(es[1], body) /\ PassesNameFilter(es[1], body)
          /\ HasRequestedType(es[2], body) /\ PassesNameFilter(es[2], body)
          /\ req[r].selectedExportId = Some(es[1].id)

\* the session of request r has a parameter named moda-json
HasModaJson(sessionData) ==
  /\ IsSome(sessionData.parameters)
  /\ \E i \in DOMAIN Val(sessionData.parameters) :
       Val(sessionData.parameters)[i].name = s_moda_json

\* the session of request r has no export of the requested type
NoExportOfType(r) ==
  \A i \in DOMAIN ExportsOf(Val(req[r].sessionData)) :
    ~HasRequestedType(ExportsOf(Val(req[r].sessionData))[i], Val(req[r].body))

\* the 404 of export discovery, naming the criteria
IsExportNotFound(r) ==
  LET body == Val(req[r].body) IN
  /\ req[r].pc = "done"
  /\ req[r].resp.status = 404
  /\ req[r].resp.error = Some("Export not found")
  /\ req[r].resp.message =
       Some("No export matched type=\"" \o ToStr(ExportTypeOf(body)) \o "\""
            \o (IF Truthy(body.exportNameContains)
                  THEN " and nameContains=\"" \o ToStr(Val(body.exportNameContains)) \o "\""
                  ELSE ""))
  /\ req[r].nCompute = 0

\* C4 as stated: a request not served from cache against a session with no
\* export of the requested type is answered 404 "Export not found" naming the
\* criteria, and no compute call is made.
C4_NoExportOfTypeIs404 ==
  \A r \in DOMAIN req :
    (IsSome(req[r].sessionData) /\ NoExportOfType(r)) => IsExportNotFound(r)

\* C4 amended: the same, for sessions that have the moda-json parameter (the
\* parameter lookup runs first and answers 500 when it is missing).
C4_NoExportOfTypeIs404_GivenParameter ==
  \A r \in DOMAIN req :
    (/\ IsSome(req[r].sessionData)
     /\ HasModaJson(Val(req[r].sessionData))
     /\ NoExportOfType(r)) => IsExportNotFound(r)

\* a 404 for a session with the parameter, exports of other types, and a name filter
C4_Witness ==
  \E r \in DOMAIN req :
    /\ IsSome(req[r].sessionData)
    /\ HasModaJson(Val(req[r].sessionData))
    /\ ExportsOf(Val(req[r].sessionData)) # <<>>
    /\ NoExportOfType(r)
    /\ Truthy(Val(req[r].body).exportNameContains)
    /\ IsExportNotFound(r)

(***************************************************************************)
(* SpecExtract: payload extraction over many result shapes (cache          *)
(* bypassed, one plain session)                                            *)
(***************************************************************************)
s_application_PDF == <<"a","p","p","l","i","c","a","t","i","o","n","/","P","D","F">>
s_text_csv == <<"t","e","x","t","/","c","s","v">>
s_datauri == <<"d","a","t","a",":",";","b","a","s","e","6","4",",","Q","U","J","D">>
s_datauri2 == <<"d","a","t","a",":","x",",","Q","U","J","D",",","R","A","=","=">>
s_UQ == <<"U","Q","=","=">>
s_url2 == <<"h","t","t","p","s",":","/","/","c","d","n","/","f","2">>
s_url3 == <<"h","t","t","p","s",":","/","/","c","d","n","/","f","3">>
s_url4 == <<"h","t","t","p","s",":","/","/","c","d","n","/","f","4">>

ExtBodies ==
  {Body(Some(s_abc), None, None, ct, TRUE) :
     ct \in {None, Some(s_application_PDF), Some(s_text_csv)}}

ExtSessions == {SessionOk(PlainSession)}

ExtData ==
  {AbsentP, StringP(<<>>), StringP(s_QUJD), StringP(s_datauri), StringP(s_datauri2),
   BufferP(<<1, 2>>), ArrayBufferP(<<3>>), ObjectP}

ExtContent == {AbsentP, StringP(s_UQ)}

\* the URL fields href, url, downloadUrl, link
ExtEntryUrls ==
  {<<None, None, None, None>>, <<Some(s_url1), None, None, None>>,
   <<None, Some(s_url2), None, None>>, <<Some(s_url1), Some(s_url2), None, None>>}

ExtDirectUrls ==
  ExtEntryUrls \cup
  {<<None, None, Some(s_url3), None>>, <<None, None, None, Some(s_url4)>>,
   <<Some(<<>>), Some(s_url2), None, Some(s_url4)>>,
   <<None, None, Some(s_url3), Some(s_url4)>>}

ExtEntries ==
  {[contentType |-> ct, format |-> None, data |-> d, content |-> c,
    href |-> u[1], url |-> u[2], downloadUrl |-> u[3], link |-> u[4]] :
     ct \in {None, Some(s_application_pdf)}, d \in ExtData, c \in ExtContent,
     u \in ExtEntryUrls}

\* entries for arrays of two: told apart by content type and bytes
ExtPairEntries ==
  {Entry(Some(s_application_pdf), None, StringP(s_QUJD), None),
   Entry(Some(s_application_PDF), None, BufferP(<<1, 2>>), None),
   Entry(Some(s_text_csv), None, StringP(s_UQ), None),
   Entry(None, None, AbsentP, Some(s_url1))}

ExtResults ==
  {ComputeOk(ArrayResult(<<>>))}
  \cup {ComputeOk(ArrayResult(<<e>>)) : e \in ExtEntries}
  \cup {ComputeOk(ArrayResult(p)) : p \in ExtPairEntries \X ExtPairEntries}
  \cup {ComputeOk([contentArray |-> None, data |-> d, content |-> c, format |-> None,
                   href |-> u[1], url |-> u[2], downloadUrl |-> u[3], link |-> u[4]]) :
          d \in ExtData, c \in ExtContent, u \in ExtDirectUrls}

ExtFetches == {FetchThrows("fetch failed"), FetchNotOk(404, "Not Found"), FetchOk(<<1, 2>>)}

NextExtract ==
  \/ StartServer
  \/ \E r \in DOMAIN req : ReceiveDownload(r, ExtBodies)
  \/ \E r \in DOMAIN req : SessionReturns(r, ExtSessions)
  \/ \E r \in DOMAIN req : ComputeReturns(r, ExtResults)
  \/ \E r \in DOMAIN req : FetchReturns(r, ExtFetches)

SpecExtract == Init /\ [][NextExtract]_vars

\* the extraction block has run for request r
ExtractionRan(r) == IsSome(req[r].selectedExportData)

\* the result of request r has a content array
HasContentArray(r) == IsSome(Val(req[r].selectedExportData).contentArray)

ContentArrayOf(r) == Val(Val(req[r].selectedExportData).contentArray)

\* the entries whose contentType equals the caller's, case-insensitively
MatchingEntries(r) ==
  {i \in DOMAIN ContentArrayOf(r) :
     /\ IsSome(Val(req[r].body).contentType)
     /\ ToLowerCase(StrOrEmpty(ContentArrayOf(r)[i].contentType))
          = ToLowerCase(Val(Val(req[r].body).contentType))}

\* C5: from a content array the entry used is the one whose contentType equals
\* the caller's preferred contentType case-insensitively; with no preferred
\* contentType, or when no entry matches it, the first entry is used.
C5_PickMatchingElseFirst ==
  \A r \in DOMAIN req :
    (ExtractionRan(r) /\ HasContentArray(r) /\ ContentArrayOf(r) # <<>>) =>
      IF MatchingEntries(r) # {}
        THEN \E i \in MatchingEntries(r) :
               /\ \A j \in MatchingEntries(r) : i <= j
               /\ req[r].pickedContent = Some(ContentArrayOf(r)[i])
        ELSE req[r].pickedContent = Some(ContentArrayOf(r)[1])

\* the object the payload is looked up on: the picked entry, or the result object
\* when the result has no content array
PayloadHolder(r) ==
  IF HasContentArray(r) THEN req[r].pickedContent ELSE req[r].selectedExportData

\* its inline payload: data, else content
InlinePayload(r) ==
  IF IsSome(PayloadHolder(r))
    THEN IF PayloadTruthy(Val(PayloadHolder(r)).data) THEN Val(PayloadHolder(r)).data
         ELSE Val(PayloadHolder(r)).content
    ELSE AbsentP

\* C6: an inline string payload that begins with "data:", on the picked entry or
\* on the result object, is answered with the base64 decoding of everything
\* after its first comma.
C6_DataUriDecoded ==
  \A r \in DOMAIN req :
    (/\ ExtractionRan(r)
     /\ InlinePayload(r).kind = "string"
     /\ StartsWith(InlinePayload(r).str, s_data_scheme)) =>
       /\ req[r].pc = "done"
       /\ req[r].resp.status = 200
       /\ req[r].resp.bytes = Some(Base64Decode(AfterFirstComma(InlinePayload(r).str)))

\* the first present field among href, url, downloadUrl, link of the holder
FirstUrlField(r) ==
  LET h == Val(PayloadHolder(r)) IN
  IF Truthy(h.href) THEN h.href
  ELSE IF Truthy(h.url) THEN h.url
  ELSE IF Truthy(h.downloadUrl) THEN h.downloadUrl
  ELSE h.link

\* C7: when no inline payload is found on the picked entry or (no content array)
\* on the result object, the first present field among href, url, downloadUrl,
\* link is the download URL, fetched with a single GET; for both shapes.
C7_UrlFieldFetchedOnce ==
  \A r \in DOMAIN req :
    (/\ ExtractionRan(r)
     /\ IsSome(PayloadHolder(r))
     /\ ~PayloadTruthy(InlinePayload(r))
     /\ Truthy(FirstUrlField(r))) =>
       /\ req[r].downloadUrl = FirstUrlField(r)
       /\ req[r].nFetch = 1
       /\ req[r].fetchedUrl = FirstUrlField(r)

\* C8: the chain short-circuits.  Once the inline payload has produced bytes no
\* URL fetch is made and those bytes are the ones sent; a fetch is made only
\* when there are no bytes and a download URL was found, and then once, to it.
C8_ExtractionShortCircuits ==
  \A r \in DOMAIN req :
    /\ IsSome(req[r].inlineBuffer) =>
         /\ req[r].nFetch = 0
         /\ req[r].pc = "done"
         /\ req[r].resp.bytes = req[r].inlineBuffer
    /\ req[r].nFetch > 0 =>
         /\ req[r].nFetch = 1
         /\ ~IsSome(req[r].inlineBuffer)
         /\ Truthy(req[r].downloadUrl)
         /\ req[r].fetchedUrl = req[r].downloadUrl
    /\ (ExtractionRan(r) /\ ~IsSome(req[r].inlineBuffer) /\ ~Truthy(req[r].downloadUrl)) =>
         /\ req[r].nFetch = 0
         /\ req[r].resp.status = 500

\* inline bytes were sent although the picked entry also carried a URL
C8_Witness ==
  \E r \in DOMAIN req :
    /\ req[r].pc = "done"
    /\ IsSome(req[r].inlineBuffer)
    /\ IsSome(req[r].pickedContent)
    /\ Truthy(Val(req[r].pickedContent).href)
    /\ req[r].nFetch = 0
    /\ req[r].resp.bytes = req[r].inlineBuffer

(***************************************************************************)
(* SpecNormalize: content type and extension over many format tokens and   *)
(* declared content types (cache bypassed, one plain session)              *)
(***************************************************************************)
s_application_x_obj == <<"a","p","p","l","i","c","a","t","i","o","n","/","x","-","o","b","j">>
s_TEXT_X_OBJ == <<"T","E","X","T","/","X","-","O","B","J">>
s_text_x_objcsrc == <<"t","e","x","t","/","x","-","o","b","j","c","s","r","c">>
s_stl == <<"s","t","l">>

NormBodies ==
  {Body(Some(s_abc), None, None, ct, TRUE) :
     ct \in {None, Some(s_application_x_obj), Some(s_text_x_objcsrc)}}

NormSessions == {SessionOk(PlainSession)}

NormFormats == {None, Some(<<>>), Some(s_pdf), Some(s_PDF), Some(s_zip), Some(s_obj), Some(s_stl)}

NormTypes ==
  {None, Some(s_text_x_obj), Some(s_TEXT_X_OBJ), Some(s_model_obj),
   Some(s_application_pdf), Some(s_text_x_objcsrc)}

\* a content array of one entry with inline bytes, or a URL on the result object
NormResults ==
  {ComputeOk([contentArray |-> Some(<<Entry(ct, f, StringP(s_QUJD), None)>>),
              data |-> AbsentP, content |-> AbsentP, format |-> g,
              href |-> None, url |-> None, downloadUrl |-> None, link |-> None]) :
     ct \in NormTypes, f \in NormFormats, g \in {None, Some(s_zip), Some(s_stl)}}
  \cup {ComputeOk(DirectResult(g, AbsentP, Some(s_url1))) : g \in NormFormats}

NormFetches == {FetchOk(<<1, 2>>)}

NextNormalize ==
  \/ StartServer
  \/ \E r \in DOMAIN req : ReceiveDownload(r, NormBodies)
  \/ \E r \in DOMAIN req : SessionReturns(r, NormSessions)
  \/ \E r \in DOMAIN req : ComputeReturns(r, NormResults)
  \/ \E r \in DOMAIN req : FetchReturns(r, NormFetches)

SpecNormalize == Init /\ [][NextNormalize]_vars

\* request r was answered with a freshly resolved file
FileSent(r) ==
  req[r].pc = "done" /\ req[r].resp.status = 200 /\ req[r].resp.xCache = "MISS"

\* "obj" occurs in s as a whole word, in any case
ObjWholeWord(s) ==
  \E i \in 1..Len(s) :
    /\ i + 2 <= Len(s)
    /\ ToLowerCase(SubSeq(s, i, i + 2)) = s_obj
    /\ (i = 1 \/ ~IsWordChar(s[i - 1]))
    /\ (i + 2 = Len(s) \/ ~IsWordChar(s[i + 3]))

\* "obj" occurs in s at all, in any case: /obj/i (which /x-obj/i implies)
ObjAnywhere(s) ==
  \E i \in 1..Len(s) : i + 2 <= Len(s) /\ ToLowerCase(SubSeq(s, i, i + 2)) = s_obj

\* C9 as stated: a resolved content type matching the vendor-OBJ pattern is
\* sent as model/obj whatever the format token.
C9_ObjRewrittenForAnyFormat ==
  \A r \in DOMAIN req :
    (FileSent(r) /\ ObjWholeWord(req[r].resolvedCt)) =>
      req[r].resp.contentType = Some(s_model_obj)

\* C9 amended: it is sent as model/obj when the format token is absent or is
\* pdf, zip or obj; with any other format token it is sent unchanged.
C9_ObjRewrittenUnlessOtherFormat ==
  \A r \in DOMAIN req :
    (FileSent(r) /\ ObjWholeWord(req[r].resolvedCt)) =>
      IF req[r].format \in {<<>>, s_pdf, s_zip, s_obj}
        THEN req[r].resp.contentType = Some(s_model_obj)
        ELSE req[r].resp.contentType = Some(req[r].resolvedCt)

\* the caller's vendor type was rewritten, the result carrying no format token
C9_Witness ==
  \E r \in DOMAIN req :
    /\ FileSent(r)
    /\ req[r].format = <<>>
    /\ req[r].resolvedCt = s_application_x_obj
    /\ Val(req[r].body).contentType = Some(s_application_x_obj)
    /\ req[r].resp.contentType = Some(s_model_obj)

\* content type model/obj and a filename ending in .obj
SentAsObj(r) ==
  /\ req[r].resp.contentType = Some(s_model_obj)
  /\ req[r].ext = <<".", "o", "b", "j">>
  /\ EndsWith(req[r].filename, <<".", "o", "b", "j">>)
  /\ EndsWith(Val(req[r].resp.contentDisposition), <<".", "o", "b", "j", "\"">>)

\* C10 as stated: every resolved content type matching /x-obj/i or /obj/i, the
\* result carrying no format token, is sent as model/obj with extension .obj.
C10_ObjSubstringNormalized ==
  \A r \in DOMAIN req :
    (FileSent(r) /\ req[r].format = <<>> /\ ObjAnywhere(req[r].resolvedCt)) => SentAsObj(r)

\* C10 amended: the same for content types in which obj is a whole word
\* (/\b(x-)?obj\b/i); obj inside a longer word leaves the type unchanged.
C10_ObjWordNormalized ==
  \A r \in DOMAIN req :
    (FileSent(r) /\ req[r].format = <<>>) =>
      /\ ObjWholeWord(req[r].resolvedCt) => SentAsObj(r)
      /\ ~ObjWholeWord(req[r].resolvedCt) =>
           req[r].resp.contentType = Some(req[r].resolvedCt)

\* an upper-case vendor type declared by the entry was sent as model/obj, .obj
C10_Witness ==
  \E r \in DOMAIN req :
    /\ FileSent(r)
    /\ req[r].format = <<>>
    /\ req[r].resolvedCt = s_TEXT_X_OBJ
    /\ SentAsObj(r)

(***************************************************************************)
(* SpecRespond: content type resolution and filename over format tokens,   *)
(* declared types, caller types and export names (cache bypassed)          *)
(***************************************************************************)
s_Report == <<"R","e","p","o","r","t">>

RespBodies ==
  {Body(Some(s_abc), t, None, ct, TRUE) :
     t \in {None, Some(s_DOWNLOAD)},
     ct \in {None, Some(s_application_PDF), Some(s_text_csv)}}

\* one export of type download: named, unnamed, or with an empty name
RespSessions ==
  {SessionOk([sessionId |-> "s1", parameters |-> ModaParams,
              exports |-> Some(<<Export("e1", n, Some(s_download))>>)]) :
     n \in {Some(s_Report), None, Some(<<>>)}}

RespFormats == {None, Some(<<>>), Some(s_pdf), Some(s_PDF), Some(s_zip), Some(s_obj), Some(s_stl)}

RespTypes == {None, Some(<<>>), Some(s_application_pdf), Some(s_text_csv), Some(s_text_x_obj)}

\* a content array of one entry with inline bytes, or a result object with a
\* URL or with inline bytes
RespResults ==
  {ComputeOk([contentArray |-> Some(<<Entry(ct, f, StringP(s_QUJD), None)>>),
              data |-> AbsentP, content |-> AbsentP, format |-> g,
              href |-> None, url |-> None, downloadUrl |-> None, link |-> None]) :
     ct \in RespTypes, f \in RespFormats, g \in {None, Some(s_zip)}}
  \cup {ComputeOk(DirectResult(g, AbsentP, Some(s_url1))) : g \in RespFormats}
  \cup {ComputeOk(DirectResult(g, StringP(s_QUJD), None)) : g \in RespFormats}

RespFetches == {FetchOk(<<1, 2>>)}

NextRespond ==
  \/ StartServer
  \/ \E r \in DOMAIN req : ReceiveDownload(r, RespBodies)
  \/ \E r \in DOMAIN req : SessionReturns(r, RespSessions)
  \/ \E r \in DOMAIN req : ComputeReturns(r, RespResults)
  \/ \E r \in DOMAIN req : FetchReturns(r, RespFetches)

SpecRespond == Init /\ [][NextRespond]_vars

\* the format token of request r: the picked entry's format, else the result
\* object's, in lower case ('' when neither is present)
TokenOf(r) ==
  LET picked == req[r].pickedContent
      sed == Val(req[r].selectedExportData)
  IN IF IsSome(picked) /\ Truthy(Val(picked).format) THEN ToLowerCase(Val(Val(picked).format))
     ELSE IF Truthy(sed.format) THEN ToLowerCase(Val(sed.format))
     ELSE <<>>

\* the contentType declared by the picked entry, if any
EntryTypeOf(r) ==
  IF IsSome(req[r].pickedContent) THEN Val(req[r].pickedContent).contentType ELSE None

\* the type the fallback chain gives: entry's, else caller's, else generic binary
FallbackTypeOf(r) ==
  IF Truthy(EntryTypeOf(r)) THEN Val(EntryTypeOf(r))
  ELSE IF Truthy(Val(req[r].body).contentType) THEN Val(Val(req[r].body).contentType)
  ELSE s_octet_stream

\* C11: content-type resolution.  Token pdf gives application/pdf, zip gives
\* application/zip, obj gives model/obj (token compared in lower case, taken
\* from the picked entry else the result object), and that is the type sent;
\* for any other or absent token the resolved type is the picked entry's
\* contentType if present, else the caller's if present, else
\* application/octet-stream, sent as it is unless it is an OBJ vendor type.
C11_ContentTypeResolution ==
  \A r \in DOMAIN req :
    FileSent(r) =>
      IF TokenOf(r) = s_pdf
        THEN req[r].resolvedCt = s_application_pdf
               /\ req[r].resp.contentType = Some(s_application_pdf)
      ELSE IF TokenOf(r) = s_zip
        THEN req[r].resolvedCt = s_application_zip
               /\ req[r].resp.contentType = Some(s_application_zip)
      ELSE IF TokenOf(r) = s_obj
        THEN req[r].resolvedCt = s_model_obj
               /\ req[r].resp.contentType = Some(s_model_obj)
      ELSE /\ req[r].resolvedCt = FallbackTypeOf(r)
           /\ ~ObjWholeWord(FallbackTypeOf(r)) =>
                req[r].resp.contentType = Some(FallbackTypeOf(r))

\* entry and caller both declare a type, in different case, with a token
\* that is not a known one: the entry's type is the one sent
C11_Witness ==
  \E r \in DOMAIN req :
    /\ FileSent(r)
    /\ TokenOf(r) = s_stl
    /\ EntryTypeOf(r) = Some(s_application_pdf)
    /\ Val(req[r].body).contentType = Some(s_application_PDF)
    /\ req[r].resp.contentType = Some(s_application_pdf)

\* the export that was selected for request r
SelectedExportOf(r) ==
  CHOOSE e \in Range(ExportsOf(Val(req[r].sessionData))) :
    Some(e.id) = req[r].selectedExportId

\* the name part of the filename: the export's name, or the requested exportType
NamePartOf(r) ==
  IF Truthy(SelectedExportOf(r).name) THEN Val(SelectedExportOf(r).name)
  ELSE ExportTypeOf(Val(req[r].body))

\* the extension: "." and the token, else inferred from the type sent
ExtensionOf(r) ==
  IF TokenOf(r) # <<>> THEN <<".">> \o TokenOf(r)
  ELSE IF req[r].resp.contentType = Some(s_application_pdf) THEN <<".", "p", "d", "f">>
  ELSE IF req[r].resp.contentType = Some(s_application_zip) THEN <<".", "z", "i", "p">>
  ELSE IF req[r].resp.contentType = Some(s_model_obj) THEN <<".", "o", "b", "j">>
  ELSE <<>>

\* C12: the filename of a resolved file is designId, "_", the selected export's
\* name (the requested exportType when the export has no name) and the
\* extension: "." and the format token when there is one, else .pdf, .zip or
\* .obj inferred from the normalized content type, else nothing.
C12_FilenameComposition ==
  \A r \in DOMAIN req :
    FileSent(r) =>
      LET expected == Val(Val(req[r].body).designId) \o <<"_">> \o NamePartOf(r)
                        \o ExtensionOf(r)
      IN /\ req[r].filename = expected
         /\ req[r].resp.contentDisposition = Some(s_attachment \o expected \o <<"\"">>)

\* an unnamed export, an upper-case exportType, an unknown token: abc_DOWNLOAD.stl
C12_Witness ==
  \E r \in DOMAIN req :
    /\ FileSent(r)
    /\ ~Truthy(SelectedExportOf(r).name)
    /\ Val(req[r].body).exportType = Some(s_DOWNLOAD)
    /\ TokenOf(r) = s_stl
    /\ req[r].filename = s_abc \o <<"_">> \o s_DOWNLOAD \o <<".", "s", "t", "l">>

(***************************************************************************)
(* Properties of the response assembly (Spec, cache in use)                *)
(***************************************************************************)
\* request r was answered 200 after the handler went past the cache probe
ResolvedAndSent(r) ==
  req[r].pc = "done" /\ req[r].resp.status = 200 /\ req[r].nSession > 0

\* C13: a successful response that was not served from cache carries
\* X-Cache: MISS, Content-Type equal to the normalized content type,
\* Content-Disposition attachment with the computed filename and
\* Content-Length equal to the byte length of the body; with format pdf the
\* Content-Type is application/pdf and the filename ends in .pdf.
C13_MissResponseHeaders ==
  \A r \in DOMAIN req :
    ResolvedAndSent(r) =>
      /\ req[r].resp.xCache = "MISS"
      /\ req[r].resp.contentType = Some(req[r].ct)
      /\ req[r].resp.contentDisposition
           = Some(s_attachment \o req[r].filename \o <<"\"">>)
      /\ req[r].resp.bytes = req[r].fileBuffer
      /\ IsSome(req[r].resp.bytes)
      /\ req[r].resp.contentLength = Some(NatToString(Len(Val(req[r].resp.bytes))))
      /\ TokenOf(r) = s_pdf =>
           /\ req[r].resp.contentType = Some(s_application_pdf)
           /\ EndsWith(req[r].filename, <<".", "p", "d", "f">>)
           /\ EndsWith(Val(req[r].resp.contentDisposition), <<".", "p", "d", "f", "\"">>)

\* a pdf resolved with the cache in use and missed: three bytes, length "3"
C13_Witness ==
  \E r \in DOMAIN req :
    /\ ResolvedAndSent(r)
    /\ ~Val(req[r].body).bypassCache
    /\ TokenOf(r) = s_pdf
    /\ req[r].resp.xCache = "MISS"
    /\ req[r].resp.contentType = Some(s_application_pdf)
    /\ req[r].resp.bytes = Some(<<65, 66, 67>>)
    /\ req[r].resp.contentLength = Some(<<"3">>)

(***************************************************************************)
(* SpecFailure: the failure paths of the handler, with the cache in use:   *)
(* session creation, parameter lookup, compute, URL fetch, missing content *)
(***************************************************************************)
s_MODA_JSON == <<"M","O","D","A","-","J","S","O","N">>
s_pad == <<"=","=","=","=">>

FailBodies == {Body(Some(s_abc), None, None, None, bp) : bp \in BOOLEAN}

\* the messages of the errors createSessionByTicket rejects with
FailSessionErrors == {"ECONNRESET", "Request failed with status code 403"}

FailParams ==
  {None,
   Some(<<>>),
   Some(<<Param("p0", <<"u","n","i","t","s">>), Param("p1", s_MODA_JSON)>>),
   Some(<<Param("p0", <<"u","n","i","t","s">>), Param("p1", s_moda_json),
          Param("p2", s_moda_json)>>)}

FailSessions ==
  {SessionThrows(m) : m \in FailSessionErrors}
  \cup {SessionOk([sessionId |-> "s1", parameters |-> ps,
                   exports |-> Some(<<Export("e1", Some(s_Report), Some(s_download))>>)]) :
          ps \in FailParams}
  \cup {SessionOk(PlainSession),
        SessionOk([sessionId |-> "s1", parameters |-> ModaParams, exports |-> None])}

FailResults ==
  {ComputeThrows("Request failed with status code 500"),
   ComputeThrows(""),
   ComputeMissing,
   \* inline pdf in a content array
   ComputeOk(ArrayResult(<<Entry(None, Some(s_pdf), StringP(s_QUJD), None)>>)),
   \* base64 padding only: a buffer of length zero
   ComputeOk(DirectResult(None, StringP(s_pad), None)),
   \* nothing but a URL on the result object
   ComputeOk(DirectResult(None, AbsentP, Some(s_url1))),
   \* neither bytes nor URL
   ComputeOk(DirectResult(None, AbsentP, None)),
   ComputeOk(DirectResult(Some(s_pdf), StringP(<<>>), Some(<<>>))),
   ComputeOk(DirectResult(None, ObjectP, Some(s_url1))),
   ComputeOk(ArrayResult(<<>>)),
   ComputeOk(ArrayResult(<<Entry(Some(s_application_pdf), Some(s_pdf), AbsentP, None)>>))}

FailFetches ==
  {FetchThrows("fetch failed"),
   FetchNotOk(404, "Not Found"),
   FetchNotOk(500, "Internal Server Error"),
   FetchOk(<<1, 2>>),
   FetchOk(<<>>)}

NextFailure ==
  \/ StartServer
  \/ \E r \in DOMAIN req : ReceiveDownload(r, FailBodies)
  \/ \E r \in DOMAIN req : CacheProbeReturns(r)
  \/ \E r \in DOMAIN req : SessionReturns(r, FailSessions)
  \/ \E r \in DOMAIN req : ComputeReturns(r, FailResults)
  \/ \E r \in DOMAIN req : FetchReturns(r, FailFetches)
  \/ PutSucceeds
  \/ PutFails

SpecFailure == Init /\ [][NextFailure]_vars

\* the positions of the parameters named exactly moda-json
ModaJsonPositions(sessionData) ==
  IF IsSome(sessionData.parameters)
    THEN {i \in DOMAIN Val(sessionData.parameters) :
            Val(sessionData.parameters)[i].name = s_moda_json}
    ELSE {}

\* C14: a session with no parameter named exactly moda-json ends the request
\* with 500 "Could not find moda-json input parameter" and no compute call;
\* otherwise the parameter used is the first one named moda-json in the
\* mapping's iteration order.
C14_ModaJsonParameterLookup ==
  \A r \in DOMAIN req :
    IsSome(req[r].sessionData) =>
      LET sd == Val(req[r].sessionData)
          M == ModaJsonPositions(sd)
      IN IF M = {}
           THEN /\ req[r].pc = "done"
                /\ req[r].resp.status = 500
                /\ req[r].resp.message = Some("Could not find moda-json input parameter")
                /\ req[r].nCompute = 0
                /\ req[r].exportRequest = None
           ELSE \E i \in M :
                  /\ \A j \in M : i <= j
                  /\ req[r].modaJsonInputId = Some(Val(sd.parameters)[i].id)
                  /\ IsSome(req[r].exportRequest) =>
                       Val(req[r].exportRequest).parameters[1].id = Val(sd.parameters)[i].id

\* two parameters are named moda-json and the compute request carries the first
C14_Witness ==
  \E r \in DOMAIN req :
    /\ IsSome(req[r].sessionData)
    /\ ModaJsonPositions(Val(req[r].sessionData)) = {2, 3}
    /\ req[r].nCompute = 1
    /\ Val(req[r].exportRequest).parameters[1].id = "p1"

\* createSessionByTicket failed for request r
SessionFailed(r) ==
  req[r].pc = "done" /\ req[r].nSession = 1 /\ ~IsSome(req[r].sessionData)

\* C15: when session creation fails the request ends with a 500 whose message
\* is the upstream error's wrapped in "Failed to create ShapeDiver session",
\* and there is no parameter or export discovery, no compute call, no URL
\* fetch and no cache write.
C15_SessionFailureIs500 ==
  \A r \in DOMAIN req :
    SessionFailed(r) =>
      /\ req[r].resp.status = 500
      /\ req[r].resp.error = Some("Download error")
      /\ \E m \in FailSessionErrors :
           req[r].resp.message = Some("Failed to create ShapeDiver session: " \o m)
      /\ req[r].resp.bytes = None
      /\ req[r].modaJsonInputId = None
      /\ req[r].selectedExportId = None
      /\ req[r].nCompute = 0
      /\ req[r].nFetch = 0
      /\ req[r].nPut = 0
      /\ req[r].put = None

\* a request that may use the cache and whose session call was refused
C15_Witness ==
  \E r \in DOMAIN req :
    /\ SessionFailed(r)
    /\ ~Val(req[r].body).bypassCache
    /\ req[r].nProbe = 1
    /\ req[r].resp.message
         = Some("Failed to create ShapeDiver session: Request failed with status code 403")

\* the compute step of request r failed: the call threw, or the result has no
\* entry for the selected export
ComputeFailed(r) ==
  req[r].pc = "done" /\ req[r].nCompute >= 1 /\ ~IsSome(req[r].selectedExportData)

\* C17: a failure of the compute step is answered with a 500, the compute call
\* is not repeated, no bytes are returned and no cache write is launched.
C17_ComputeFailureIs500 ==
  \A r \in DOMAIN req :
    /\ req[r].nCompute <= 1
    /\ ComputeFailed(r) =>
         /\ req[r].resp.status = 500
         /\ req[r].resp.error \in {Some("Download error"), Some("Export missing")}
         /\ req[r].resp.bytes = None
         /\ req[r].nFetch = 0
         /\ req[r].nPut = 0
         /\ req[r].put = None

\* a request that may use the cache and whose compute call threw
C17_Witness ==
  \E r \in DOMAIN req :
    /\ ComputeFailed(r)
    /\ ~Val(req[r].body).bypassCache
    /\ req[r].resp.error = Some("Download error")
    /\ req[r].resp.message = Some("Request failed with status code 500")

\* C18: a non-success status of the URL fetch ends the request with 502
\* {error: "Download failed"} and no cache write; on success the fetched body
\* is the bytes of the response.
C18_FetchStatusDecides ==
  \A r \in DOMAIN req :
    IsSome(req[r].fetchResponse) =>
      LET f == Val(req[r].fetchResponse) IN
      /\ req[r].pc = "done"
      /\ req[r].nFetch = 1
      /\ IF f.kind = "notok"
           THEN /\ req[r].resp.status = 502
                /\ req[r].resp.error = Some("Download failed")
                /\ req[r].resp.message
                     = Some("Failed to download export: " \o ToStr(NatToString(f.status))
                              \o " " \o f.message)
                /\ req[r].resp.bytes = None
                /\ req[r].nPut = 0
                /\ req[r].put = None
           ELSE /\ req[r].resp.status = 200
                /\ req[r].resp.bytes = Some(f.body)
                /\ req[r].resp.contentLength = Some(NatToString(Len(f.body)))

\* a request that may use the cache and whose fetch was answered 404
C18_Witness ==
  \E r \in DOMAIN req :
    /\ IsSome(req[r].fetchResponse)
    /\ ~Val(req[r].body).bypassCache
    /\ Val(req[r].fetchResponse).kind = "notok"
    /\ req[r].resp.status = 502
    /\ req[r].resp.message = Some("Failed to download export: 404 Not Found")

\* the extraction of request r gave no buffer and no fetch gave one
NothingObtained(r) ==
  /\ req[r].pc = "done"
  /\ ExtractionRan(r)
  /\ ~IsSome(req[r].inlineBuffer)
  /\ ~IsSome(req[r].fetchResponse)
  /\ req[r].nFetch = 0

\* C19: when neither the inline payload nor the URL step gave a buffer the
\* request ends with 500 {error: "No export content"}; a 200 answered after
\* the cache probe always carries a buffer that one of the two steps gave.
C19_NoContentIs500 ==
  \A r \in DOMAIN req :
    /\ NothingObtained(r) =>
         /\ req[r].resp.status = 500
         /\ req[r].resp.error = Some("No export content")
         /\ req[r].resp.message = Some("No file content or URL returned by export")
         /\ req[r].resp.bytes = None
         /\ req[r].nPut = 0
    /\ ResolvedAndSent(r) =>
         /\ IsSome(req[r].fileBuffer)
         /\ req[r].resp.bytes = req[r].fileBuffer
         /\ \/ IsSome(req[r].inlineBuffer) /\ req[r].fileBuffer = req[r].inlineBuffer
            \/ /\ IsSome(req[r].fetchResponse)
               /\ Val(req[r].fetchResponse).kind = "ok"
               /\ req[r].fileBuffer = Some(Val(req[r].fetchResponse).body)

\* a content array whose entry has neither payload nor href
C19_Witness ==
  \E r \in DOMAIN req :
    /\ NothingObtained(r)
    /\ HasContentArray(r)
    /\ IsSome(req[r].pickedContent)
    /\ req[r].resp.status = 500
    /\ req[r].resp.error = Some("No export content")

(***************************************************************************)
(* Properties of the compute request (SpecDiscovery)                       *)
(***************************************************************************)
s_document_url ==
  <<"h","t","t","p","s",":","/","/","m","o","n","g","o","-","s","d","-","s","e","r","v","e","r",
    ".","o","n","r","e","n","d","e","r",".","c","o","m","/","a","p","i","/","d","a","t","a","/">>

\* the first export of the session matching the criteria of request r
FirstMatchingExport(r) ==
  LET body == Val(req[r].body)
      es == ExportsOf(Val(req[r].sessionData))
      M == {i \in DOMAIN es : HasRequestedType(es[i], body) /\ PassesNameFilter(es[i], body)}
  IN es[CHOOSE i \in M : \A j \in M : i <= j]

\* C16: the compute request has exactly one parameter entry, mapping the
\* discovered moda-json parameter id to the URL base + "/api/data/" + designId,
\* and exactly one export id, the one chosen by export discovery; it is
\* submitted once.
C16_ComputeRequestShape ==
  \A r \in DOMAIN req :
    /\ (req[r].nCompute >= 1) = IsSome(req[r].exportRequest)
    /\ req[r].nCompute >= 1 =>
         LET x == Val(req[r].exportRequest)
             ps == Val(Val(req[r].sessionData).parameters)
         IN /\ req[r].nCompute = 1
            /\ Len(x.parameters) = 1
            /\ \E i \in ModaJsonPositions(Val(req[r].sessionData)) :
                 /\ \A j \in ModaJsonPositions(Val(req[r].sessionData)) : i <= j
                 /\ x.parameters[1].id = ps[i].id
            /\ x.parameters[1].value = s_document_url \o Val(Val(req[r].body).designId)
            /\ Len(x.exports) = 1
            /\ x.exports[1] = FirstMatchingExport(r).id
            /\ req[r].selectedExportId = Some(x.exports[1])

\* the second of three exports was chosen by the name filter and submitted
C16_Witness ==
  \E r \in DOMAIN req :
    /\ req[r].nCompute = 1
    /\ Len(ExportsOf(Val(req[r].sessionData))) = 3
    /\ Truthy(Val(req[r].body).exportNameContains)
    /\ Val(req[r].exportRequest).exports = <<"e2">>
    /\ Val(req[r].exportRequest).parameters
         = <<[id |-> "p1", value |-> s_document_url \o s_abc]>>

(***************************************************************************)
(* Properties of the cache write (Spec)                                    *)
(***************************************************************************)
\* the step in which request r launches its cache write
WriteLaunched(r) ==
  req[r].pc \in {"compute", "fetch"} /\ IsSome(req'[r].put)

\* a step in which a launched cache write settles, with success or failure
WriteSettled == pendingPuts' # pendingPuts /\ pendingPuts' \subseteq pendingPuts

\* C20: the cache write never affects the response.  The step that launches
\* the write is the step that sends the 200 response with the bytes being
\* stored, so the response does not wait for the write; and a write that
\* succeeds or fails changes no request and no response.
C20_CacheWriteDetached ==
  [][/\ \A r \in DOMAIN req :
          WriteLaunched(r) =>
            /\ req'[r].pc = "done"
            /\ req'[r].resp.status = 200
            /\ req'[r].resp.xCache = "MISS"
            /\ req'[r].resp.bytes = Some(Val(req'[r].put).buffer)
            /\ Val(req'[r].put) \in pendingPuts'
            /\ cache' = cache
     /\ WriteSettled => req' = req]_vars

\* a request answered 200 whose cache write failed: nothing is pending and
\* nothing was stored
C20_Witness ==
  \E r \in DOMAIN req :
    /\ req[r].pc = "done"
    /\ req[r].resp.status = 200
    /\ IsSome(req[r].put)
    /\ pendingPuts = {}
    /\ cache = <<>>

(***************************************************************************)
(* Properties of the whole request (SpecFailure, cache in use)             *)
(***************************************************************************)
\* C21: a successful resolution with bypassCache=false issues exactly one
\* cache write, keyed by designId, exportType, exportNameContains and the
\* normalized content type, carrying the bytes, content type and filename of
\* the response; a request that ends in an error, is served from the cache or
\* bypasses the cache issues none.
C21_OneCacheWritePerResolution ==
  \A r \in DOMAIN req :
    req[r].pc = "done" =>
      LET body == Val(req[r].body) IN
      IF ResolvedAndSent(r) /\ ~body.bypassCache
        THEN /\ req[r].nPut = 1
             /\ IsSome(req[r].put)
             /\ Val(req[r].put).key
                  = [designId |-> Val(body.designId),
                     exportType |-> ExportTypeOf(body),
                     exportNameContains |-> body.exportNameContains,
                     contentType |-> req[r].resp.contentType]
             /\ Some(Val(req[r].put).buffer) = req[r].resp.bytes
             /\ Some(Val(req[r].put).contentType) = req[r].resp.contentType
             /\ Some(s_attachment \o Val(req[r].put).filename \o <<"\"">>)
                  = req[r].resp.contentDisposition
        ELSE req[r].nPut = 0 /\ req[r].put = None

\* a fetched file answered with the cache in use and its write issued
C21_Witness ==
  \E r \in DOMAIN req :
    /\ ResolvedAndSent(r)
    /\ ~Val(req[r].body).bypassCache
    /\ req[r].nFetch = 1
    /\ req[r].nPut = 1
    /\ Val(req[r].put).key.contentType = Some(s_octet_stream)
    /\ Val(req[r].put) \in pendingPuts

\* the steps a request has behind it are the earlier ones, each with success
StepsInOrder(q) ==
  /\ q.nProbe >= 1 => ~Val(q.body).bypassCache
  /\ q.nSession >= 1 =>
       \/ Val(q.body).bypassCache /\ q.nProbe = 0
       \/ q.nProbe = 1 /\ IsSome(q.cached) /\ ~IsCacheHit(Val(q.cached))
  /\ IsSome(q.sessionData) => q.nSession = 1
  /\ IsSome(q.modaJsonInputId) => IsSome(q.sessionData)
  /\ IsSome(q.selectedExportId) => IsSome(q.modaJsonInputId)
  /\ q.nCompute >= 1 => IsSome(q.selectedExportId) /\ IsSome(q.exportRequest)
  /\ IsSome(q.selectedExportData) => q.nCompute = 1
  /\ (IsSome(q.inlineBuffer) \/ IsSome(q.downloadUrl)) => IsSome(q.selectedExportData)
  /\ q.nFetch >= 1 => IsSome(q.selectedExportData) /\ ~IsSome(q.inlineBuffer)
  /\ (q.resp.status = 200 /\ q.resp.xCache = "MISS") =>
       /\ IsSome(q.selectedExportData)
       /\ IsSome(q.fileBuffer)
  /\ q.nPut >= 1 =>
       /\ q.resp.status = 200
       /\ IsSome(q.fileBuffer)
       /\ q.ct # <<>>

\* the position of a request moves forward only
StepForward(from, to) ==
  \/ from \in {"idle", "done"} /\ to \in {"probe", "session", "done"}
  \/ from = "probe" /\ to \in {"session", "done"}
  \/ from = "session" /\ to \in {"compute", "done"}
  \/ from = "compute" /\ to \in {"fetch", "done"}
  \/ from = "fetch" /\ to = "done"

\* C22: within one request the steps occur in the order cache probe, session
\* creation, parameter discovery, export discovery, compute submission,
\* payload extraction, response; no step starts unless every earlier one
\* succeeded, and the cache write is launched only after extraction and
\* normalization succeeded.
C22_StepsInFixedOrder ==
  [][\A r \in DOMAIN req :
       /\ req'[r] # req[r] => StepForward(req[r].pc, req'[r].pc)
       /\ StepsInOrder(req'[r])]_vars

\* a request that went through every step, the URL fetch included
C22_Witness ==
  \E r \in DOMAIN req :
    /\ req[r].pc = "done"
    /\ req[r].nProbe = 1 /\ req[r].nSession = 1 /\ req[r].nCompute = 1
    /\ req[r].nFetch = 1 /\ req[r].nPut = 1
    /\ req[r].resp.status = 200

\* C23: no remote call is retried.  Within one request session creation,
\* compute submission and the URL fetch are each invoked at most once, on
\* every path.
C23_NoRemoteCallRepeated ==
  \A r \in DOMAIN req :
    /\ req[r].nSession \in {0, 1}
    /\ req[r].nCompute \in {0, 1}
    /\ req[r].nFetch \in {0, 1}
    /\ req[r].nProbe \in {0, 1}

\* a request that ended 502 after one session, one compute call and one fetch
C23_Witness ==
  \E r \in DOMAIN req :
    /\ req[r].pc = "done"
    /\ req[r].resp.status = 502
    /\ req[r].nSession = 1 /\ req[r].nCompute = 1 /\ req[r].nFetch = 1

(***************************************************************************)
(* SpecEntry: the entry of the handler over bodies with and without a      *)
(* designId, with and without an endpoint, and with a ticket of their own  *)
(***************************************************************************)
s_custom_endpoint == <<"h","t","t","p","s",":","/","/","s","d","r","7">>

EntryBodies ==
  {[designId |-> d, shapediverEndpoint |-> e, exportType |-> None,
    exportNameContains |-> None, contentType |-> None, bypassCache |-> bp,
    ticket |-> t] :
     d \in {None, Some(<<>>), Some(s_abc)},
     e \in {None, Some(<<>>), Some(s_custom_endpoint)},
     bp \in BOOLEAN,
     t \in {None, Some("caller-ticket")}}

EntrySessions == {SessionThrows("ECONNRESET"), SessionOk(PlainSession)}

\* no result with content: no cache write is ever launched here
EntryResults == {ComputeMissing, ComputeThrows("Request failed with status code 500")}

NextEntry ==
  \/ StartServer
  \/ \E r \in DOMAIN req : ReceiveDownload(r, EntryBodies)
  \/ \E r \in DOMAIN req : CacheProbeReturns(r)
  \/ \E r \in DOMAIN req : SessionReturns(r, EntrySessions)
  \/ \E r \in DOMAIN req : ComputeReturns(r, EntryResults)

SpecEntry == Init /\ [][NextEntry]_vars

\* request r has been entered with a body that has no designId (absent or '')
LacksDesignId(r) == IsSome(req[r].body) /\ ~Truthy(Val(req[r].body).designId)

\* rejected before any cache probe, session, compute call or cache write
RejectedUpFront(r) ==
  /\ req[r].pc = "done"
  /\ req[r].nProbe = 0 /\ req[r].nSession = 0 /\ req[r].nCompute = 0
  /\ req[r].nFetch = 0 /\ req[r].nPut = 0
  /\ req[r].put = None
  /\ req[r].resp.bytes = None

\* C26 as stated: a download request without a designId is rejected with 400
\* before any cache probe, session creation, compute call or cache write.
C26_MissingDesignIdIs400 ==
  \A r \in DOMAIN req :
    LacksDesignId(r) => RejectedUpFront(r) /\ req[r].resp.status = 400

\* C26 amended: with the database connected it is rejected with 400
\* "designId is required"; with the database not connected requireMongo
\* answers 503 first.  Either way nothing is probed, called or written.
C26_MissingDesignIdIs400_WhenConnected ==
  \A r \in DOMAIN req :
    LacksDesignId(r) =>
      /\ RejectedUpFront(r)
      /\ IF isMongoConnected
           THEN /\ req[r].resp.status = 400
                /\ req[r].resp.error = Some("Missing required parameter")
                /\ req[r].resp.message = Some("designId is required")
           ELSE req[r].resp.status = 503

\* an empty designId, the cache not bypassed, the database connected: 400
C26_Witness ==
  \E r \in DOMAIN req :
    /\ isMongoConnected
    /\ IsSome(req[r].body)
    /\ Val(req[r].body).designId = Some(<<>>)
    /\ ~Val(req[r].body).bypassCache
    /\ RejectedUpFront(r)
    /\ req[r].resp.status = 400

\* C27: the ticket passed to session creation is the server's constant
\* whatever the body contains, so it is the same for any two requests; the
\* endpoint is the caller's shapediverEndpoint, or the default when the
\* caller gave none.
C27_TicketIsServerConstant ==
  \A r \in DOMAIN req :
    req[r].nSession >= 1 =>
      LET body == Val(req[r].body) IN
      /\ req[r].ticket = Some(DOWNLOAD_TICKET)
      /\ \A s \in DOMAIN req : req[s].nSession >= 1 => req[s].ticket = req[r].ticket
      /\ req[r].endpoint =
           IF IsSome(body.shapediverEndpoint) /\ Val(body.shapediverEndpoint) # <<>>
             THEN body.shapediverEndpoint
             ELSE Some(s_default_endpoint)

\* a body with a ticket and an endpoint of its own: the endpoint is used, the
\* ticket is not
C27_Witness ==
  \E r \in DOMAIN req :
    /\ req[r].nSession = 1
    /\ Val(req[r].body).ticket = Some("caller-ticket")
    /\ Val(req[r].body).shapediverEndpoint = Some(s_custom_endpoint)
    /\ req[r].endpoint = Some(s_custom_endpoint)
    /\ req[r].ticket = Some(DOWNLOAD_TICKET)

(***************************************************************************)
(* SpecConcurrent: two requests in flight at once, with identical criteria *)
(* under which a stored artifact would be found again                      *)
(***************************************************************************)
ConcBodies == {Body(Some(s_abc), None, None, Some(s_application_pdf), FALSE)}

ConcSessions == {SessionOk(PlainSession)}

ConcResults == {ComputeOk(DirectResult(Some(s_pdf), StringP(s_QUJD), None))}

InitConcurrent ==
  /\ listening = FALSE
  /\ isMongoConnected = FALSE
  /\ cache = <<>>
  /\ pendingPuts = {}
  /\ req = [r \in {1, 2} |-> IdleReq]
  /\ stored = {}
  /\ collection = <<>>
  /\ now = 0
  /\ last = NoExchange
  /\ inserted = 0
  /\ tester = TesterStart(ConfiguredEnv)
  /\ remote = <<>>

NextConcurrent ==
  \/ StartServer
  \/ \E r \in DOMAIN req : ReceiveDownload(r, ConcBodies)
  \/ \E r \in DOMAIN req : CacheProbeReturns(r)
  \/ \E r \in DOMAIN req : SessionReturns(r, ConcSessions)
  \/ \E r \in DOMAIN req : ComputeReturns(r, ConcResults)
  \/ PutSucceeds
  \/ PutFails

SpecConcurrent == InitConcurrent /\ [][NextConcurrent]_vars

\* C24: concurrent requests with identical criteria are neither deduplicated
\* nor serialized.  A request whose probe misses issues its own session call
\* whatever the other request is doing, a step of one request changes no
\* other request, and every freshly resolved response comes from the
\* request's own session and compute call.
C24_NoDeduplication ==
  [][\A r \in DOMAIN req :
       /\ (ProbeReturned(r) /\ ProbeKey(Val(req[r].body)) \notin DOMAIN cache) =>
            /\ req'[r].pc = "session"
            /\ req'[r].nSession = 1
       /\ req'[r] # req[r] => \A s \in DOMAIN req \ {r} : req'[s] = req[s]
       /\ (req'[r].pc = "done" /\ req'[r].resp.status = 200
             /\ req'[r].resp.xCache = "MISS") =>
            /\ req'[r].nSession = 1
            /\ req'[r].nCompute = 1
            /\ IsSome(req'[r].resp.bytes)]_vars

\* the second request came while the first was in flight; both missed the
\* cache, both created a session, both submitted a compute call, and both
\* were answered 200 with the bytes
C24_Witness ==
  /\ req[1].body = req[2].body
  /\ 1 \in req[2].inFlightAtEntry
  /\ \A r \in {1, 2} :
       /\ req[r].pc = "done"
       /\ req[r].nProbe = 1 /\ req[r].nSession = 1 /\ req[r].nCompute = 1
       /\ req[r].resp.status = 200
       /\ req[r].resp.xCache = "MISS"
       /\ req[r].resp.bytes = Some(<<65, 66, 67>>)

(***************************************************************************)
(* The document endpoints (SpecStore): designs are uploaded under a few     *)
(* names while time passes, versions are requested by name and path        *)
(* segment, and the latest of every name is listed.                        *)
(***************************************************************************)
s_minus_1 == <<"-","1">>
s_1abc == <<"1","a","b","c">>

\* the name field of an upload: absent, empty, ordinary, inherited by objects
StoreUploads == {None, Some(""), Some("a"), Some("b"), Some("constructor")}

\* the :name of a version request: stored or never stored
StoreNames == {"a", "zzz"}

\* the :versionNumber of a version request
StoreSegments == {<<"0">>, <<"1">>, <<"2">>, <<"3">>, s_minus_1, s_abc, s_1abc}

NextStore ==
  \/ StartServer
  \/ Tick
  \/ UploadDesign(StoreUploads)
  \/ GetVersion(StoreNames, StoreSegments)
  \/ ListLatest

SpecStore == Init /\ [][NextStore]_vars

\* the last exchange was a version request answered past the database check
\* and with the query, if one was made, succeeding
VersionAnswered == last.endpoint = "version" /\ isMongoConnected /\ last.dbOk

\* the documents the last version request asked about
Requested == DocsNamed(collection, Val(last.name))

DistinctTimes(S) == \A d, e \in S : d # e => d.uploadedAt # e.uploadedAt

\* the document of S with exactly k documents of S uploaded after it
KthNewest(S, k) ==
  CHOOSE d \in S : Cardinality({e \in S : e.uploadedAt > d.uploadedAt}) = k

\* C28: for a name shared by n >= 1 documents with distinct uploadedAt, the
\* version request for k with 0 <= k < n returns the document with the
\* (k+1)-th greatest uploadedAt, and for k >= n answers 404 naming the range
\* 0..n-1; a name with no documents answers 404.
C28_VersionResolution ==
  \A k \in 0..(MaxDocs + 1) :
    (VersionAnswered /\ last.segment = NatToString(k) /\ DistinctTimes(Requested)) =>
      LET n == Cardinality(Requested) IN
      /\ (n >= 1 /\ k < n) =>
            /\ last.resp.status = 200
            /\ last.resp.doc = Some(KthNewest(Requested, k))
      /\ (n >= 1 /\ k >= n) =>
            /\ last.resp.status = 404
            /\ last.resp.message =
                 Some("Version " \o ToStr(NatToString(k))
                        \o " does not exist. Available versions: 0-"
                        \o ToStr(NatToString(n - 1)))
      /\ n = 0 => last.resp.status = 404

\* version 1 of a name with three documents uploaded at three times
C28_Witness ==
  /\ VersionAnswered
  /\ last.segment = <<"1">>
  /\ Cardinality(Requested) = 3
  /\ DistinctTimes(Requested)
  /\ last.resp.status = 200
  /\ IsSome(last.resp.doc)
  /\ Val(last.resp.doc).uploadedAt = 1

\* a non-empty run of decimal digits
IsNonNegativeInteger(s) == s # <<>> /\ \A i \in DOMAIN s : s[i] \in Range(DigitChars)

\* C29: a version-number segment that is not a non-negative integer
\* (negative, non-numeric, or a number followed by non-digit characters) is
\* answered 400 and no document is returned.
C29_MalformedVersionIs400 ==
  (last.endpoint = "version" /\ isMongoConnected /\ ~IsNonNegativeInteger(last.segment)) =>
    /\ last.resp.status = 400
    /\ last.resp.doc = None

\* the names of the stored documents
StoredNames == {collection[i].name : i \in DOMAIN collection}

RECURSIVE SumTotalVersions(_)
SumTotalVersions(items) ==
  IF items = <<>> THEN 0 ELSE items[1].totalVersions + SumTotalVersions(Tail(items))

\* C30: the latest-per-name listing has exactly one item per distinct name;
\* the item is a document of greatest uploadedAt among those of its name,
\* its totalVersions is the number of documents of the name, and the
\* totalVersions of all items sum to the number of stored documents.
C30_ListLatestOnePerName ==
  (last.endpoint = "list" /\ isMongoConnected /\ last.dbOk) =>
    LET items == last.resp.items IN
    /\ last.resp.status = 200
    /\ {items[i].name : i \in DOMAIN items} = StoredNames
    /\ Len(items) = Cardinality(StoredNames)
    /\ \A i \in DOMAIN items :
         LET group == DocsNamed(collection, items[i].name) IN
         /\ \E d \in group :
              /\ d.id = items[i].id
              /\ d.uploadedAt = items[i].uploadedAt
              /\ \A e \in group : e.uploadedAt <= d.uploadedAt
         /\ items[i].totalVersions = Cardinality(group)
    /\ SumTotalVersions(items) = Len(collection)

\* an answer with an error status
IsErrorOutcome(resp) == resp.status >= 400

\* the body { error, message } under a 4xx or 5xx status
IsErrorBody(resp) ==
  /\ resp.status \in 400..599
  /\ IsSome(resp.error)
  /\ IsSome(resp.message)

\* C25: every error outcome of a request is answered with a 4xx/5xx status
\* and a JSON body holding both an error field and a message field.
C25_ErrorsCarryErrorAndMessage ==
  /\ IsErrorOutcome(last.resp) => IsErrorBody(last.resp)
  /\ \A r \in DOMAIN req : IsErrorOutcome(req[r].resp) => IsErrorBody(req[r].resp)

(***************************************************************************)
(* The life of a document (SpecLifecycle): uploads, updates and deletes    *)
(* while time passes.  Bodies may bring their own _id and uploadedAt.      *)
(***************************************************************************)
\* an uploadedAt a body gives: no clock value of the server
GivenTime == MaxTime + 7

LifeUploads ==
  {DesignBody(None, None, None),
   DesignBody(Some("a"), None, None),
   DesignBody(Some("a"), None, Some(GivenTime)),
   DesignBody(Some("a"), Some(StringId("x")), None)}

LifeUpdates ==
  {DesignBody(None, None, Some(GivenTime)),
   DesignBody(Some("b"), None, None)}

LifeIds == {ObjectIdOf(1), ObjectIdOf(2), StringId("x")}

NextLifecycle ==
  \/ StartServer
  \/ Tick
  \/ Upload(LifeUploads)
  \/ Update(LifeIds, LifeUpdates)
  \/ Delete(LifeIds)

SpecLifecycle == Init /\ [][NextLifecycle]_vars

IdsOf(docs) == {docs[i].id : i \in DOMAIN docs}

\* this step is an upload answered 201
UploadSucceeds ==
  /\ last' # last
  /\ last'.endpoint = "upload"
  /\ last'.resp.status = 201

\* this step is an update answered 200
UpdateSucceeds ==
  /\ last' # last \/ collection' # collection
  /\ last'.endpoint = "update"
  /\ last'.resp.status = 200

\* this step is a delete answered 200
DeleteSucceeds ==
  /\ last' # last
  /\ last'.endpoint = "delete"
  /\ last'.resp.status = 200

\* C31: a successful upload adds exactly one document, under an id no
\* document has, and leaves every existing document as it was, also when
\* documents of the same name exist: the version count of the name grows by
\* one.  A document disappears only in a successful delete of its id.
C31_UploadNeverOverwrites ==
  [][/\ UploadSucceeds =>
          \E d \in {Val(last'.resp.doc)} :
            /\ collection' = Append(collection, d)
            /\ d.id \notin IdsOf(collection)
            /\ d.name = Val(last'.name)
            /\ Cardinality(DocsNamed(collection', d.name))
                 = Cardinality(DocsNamed(collection, d.name)) + 1
     /\ \A id \in IdsOf(collection) \ IdsOf(collection') :
          /\ DeleteSucceeds
          /\ last'.id = Some(id)
          /\ IdsOf(collection') = IdsOf(collection) \ {id}
    ]_vars

\* an upload has succeeded under a name that two older documents have
C31_Witness ==
  /\ last.endpoint = "upload"
  /\ last.resp.status = 201
  /\ Cardinality(DocsNamed(collection, Val(last.name))) = 3
  /\ collection[Len(collection)] = Val(last.resp.doc)

\* d carries the server time and no document of its name is newer; when the
\* others were all stamped at earlier clock values it is the one version 0
StampedNewest(d, docs, time) ==
  /\ d.uploadedAt = time
  /\ \A e \in DocsNamed(docs, d.name) : e.uploadedAt <= d.uploadedAt
  /\ (\A e \in DocsNamed(docs, d.name) \ {d} : e.uploadedAt < time) =>
       KthNewest(DocsNamed(docs, d.name), 0) = d

\* C32: after a successful upload or update the document's uploadedAt is
\* the server time of the operation, whatever uploadedAt the body gives, and
\* the document is version 0 among the documents of its name.
C32_UploadedAtIsServerStamped ==
  [][/\ UploadSucceeds =>
          /\ Val(last'.resp.doc) \in Range(collection')
          /\ StampedNewest(Val(last'.resp.doc), collection', now)
     /\ UpdateSucceeds =>
          /\ Position(collection', Val(last'.id)) # 0
          /\ StampedNewest(collection'[Position(collection', Val(last'.id))],
                           collection', now)
    ]_vars

\* an update whose body gave its own uploadedAt has re-stamped the older of
\* two documents of a name, which is now the newer one
C32_Witness ==
  /\ last.endpoint = "update"
  /\ last.resp.status = 200
  /\ last.given = Some(GivenTime)
  /\ Position(collection, Val(last.id)) = 1
  /\ Len(collection) >= 2
  /\ collection[2].name = collection[1].name
  /\ collection[2].uploadedAt < collection[1].uploadedAt
  /\ collection[1].uploadedAt = now

(***************************************************************************)
(* bypassCache (Spec)                                                      *)
(***************************************************************************)
\* request r is one that came with bypassCache = true
Bypasses(q) == IsSome(q.body) /\ Val(q.body).bypassCache

\* C35: a request with bypassCache = true leaves the cache alone: none of
\* its steps reads the cache, serves an entry, launches a cache write or
\* changes the cache, and no cache write ever stems from such a request.
C35_BypassLeavesCacheUntouched ==
  [][/\ \A r \in DOMAIN req :
          (req'[r] # req[r] /\ Bypasses(req'[r])) =>
             /\ cache' = cache
             /\ pendingPuts' = pendingPuts
             /\ req'[r].nProbe = 0
             /\ req'[r].nPut = 0
             /\ req'[r].cached = None
             /\ req'[r].put = None
             /\ req'[r].resp.xCache # "HIT"
     /\ \A p \in pendingPuts' : ~p.origin.bypassCache
    ]_vars

\* a bypassing request was resolved afresh although the cache holds an entry
\* for its criteria
C35_Witness ==
  \E r \in DOMAIN req :
    /\ Bypasses(req[r])
    /\ ResolvedAndSent(r)
    /\ req[r].nCompute = 1
    /\ ProbeKey(Val(req[r].body)) \in DOMAIN cache

(***************************************************************************)
(* The routes behind requireMongo (SpecUnavailable): one request of every  *)
(* modelled route, on a server that is or is not connected.                *)
(***************************************************************************)
UnavBodies ==
  {Body(Some(s_abc), None, None, None, bp) : bp \in BOOLEAN}

UnavUploads == {DesignBody(Some("a"), None, None)}
UnavUpdates == {DesignBody(Some("b"), None, None)}
UnavIds == {ObjectIdOf(1)}
UnavNames == {"a"}
UnavSegments == {<<"0">>, s_abc}

NextUnavailable ==
  \/ StartServer
  \/ Tick
  \/ Upload(UnavUploads)
  \/ Update(UnavIds, UnavUpdates)
  \/ Delete(UnavIds)
  \/ GetVersion(UnavNames, UnavSegments)
  \/ ListLatest
  \/ \E r \in DOMAIN req : ReceiveDownload(r, UnavBodies)

SpecUnavailable == Init /\ [][NextUnavailable]_vars

\* C36: while the database is not connected, every route behind the
\* database check answers 503 "Database unavailable" and its request touches
\* neither the collection, nor the cache, nor the remote service.
C36_UnavailableIs503 ==
  [][(listening /\ ~isMongoConnected) =>
       /\ last' # last =>
            /\ last'.resp.status = 503
            /\ last'.resp.error = Some("Database unavailable")
            /\ ~last'.queried
       /\ \A r \in DOMAIN req :
            req'[r] # req[r] =>
              /\ req'[r].pc = "done"
              /\ req'[r].resp.status = 503
              /\ req'[r].resp.error = Some("Database unavailable")
              /\ req'[r].nProbe = 0 /\ req'[r].nSession = 0 /\ req'[r].nCompute = 0
              /\ req'[r].nFetch = 0 /\ req'[r].nPut = 0
       /\ UNCHANGED <<collection, inserted, cache, pendingPuts, stored>>
    ]_vars

\* a download and an update were both turned away by the database check
C36_Witness ==
  /\ listening
  /\ ~isMongoConnected
  /\ last.endpoint = "update"
  /\ last.resp = DatabaseUnavailable
  /\ \E r \in DOMAIN req :
       /\ req[r].pc = "done"
       /\ req[r].resp.status = 503
       /\ ~Val(req[r].body).bypassCache

(***************************************************************************)
(* Termination of a download request (SpecTerminates): the requests of     *)
(* Spec, with every awaited call returning or failing in the end.          *)
(***************************************************************************)
SpecTerminates ==
  /\ Init
  /\ [][Next]_vars
  /\ \A r \in {1} :
       /\ WF_vars(CacheProbeReturns(r))
       /\ WF_vars(SessionReturns(r, CacheSessions))
       /\ WF_vars(ComputeReturns(r, CacheResults))
       /\ WF_vars(FetchReturns(r, CacheFetches))

\* C40: a download request that got past the database check ends with
\* exactly one response: none while it is in flight, one once it is over,
\* never two, and it is over in the end.
C40_ExactlyOneResponse ==
  /\ [](\A r \in DOMAIN req :
          /\ req[r].nResp <= 1
          /\ InFlight(r) => req[r].nResp = 0
          /\ req[r].pc = "done" => req[r].nResp = 1)
  /\ \A r \in {1} : InFlight(r) ~> (req[r].pc = "done" /\ req[r].nResp = 1)

\* a request has been answered after its cache probe, session, compute call
\* and URL fetch all returned
C40_Witness ==
  \E r \in DOMAIN req :
    /\ isMongoConnected
    /\ req[r].pc = "done"
    /\ req[r].nResp = 1
    /\ req[r].nProbe = 1 /\ req[r].nSession = 1 /\ req[r].nCompute = 1 /\ req[r].nFetch = 1

(***************************************************************************)
(* The browser tester (SpecTester): clicks, selections and edits in any    *)
(* order with the returns of the remote calls in flight.                   *)
(***************************************************************************)
SessionNoData == [kind |-> "nodata", message |-> "", data |-> EmptySession]

\* a session with the moda-json parameter and two exports
TwoExportSession ==
  [sessionId |-> "s1", parameters |-> ModaParams,
   exports |-> Some(<<Export("e1", Some(<<"R","e","p","o","r","t">>), Some(s_download)),
                      Export("e2", Some(<<"M","e","s","h">>), Some(s_download))>>)]

TesterEnvs ==
  {ConfiguredEnv, Env(Some("ticket-primary"), None), Env(None, Some("ticket-alt"))}

TesterSessions ==
  {SessionThrows("Network Error"),
   SessionNoData,
   SessionOk(TwoExportSession),
   SessionOk([TwoExportSession EXCEPT !.exports = None]),
   SessionOk([TwoExportSession EXCEPT
                !.parameters = Some(<<Param("p0", <<"u","n","i","t","s">>)>>)])}

TesterUrls == {<<>>, <<" ">>, s_url1}

TesterOutcomes == {"throw", "missing", "nocontent", "nourl", "ready"}

InitTester ==
  /\ listening = FALSE
  /\ isMongoConnected = FALSE
  /\ cache = <<>>
  /\ pendingPuts = {}
  /\ req = [r \in {1} |-> IdleReq]
  /\ stored = {}
  /\ collection = <<>>
  /\ now = 0
  /\ last = NoExchange
  /\ inserted = 0
  /\ tester \in {TesterStart(env) : env \in TesterEnvs}
  /\ remote = <<>>

NextTester ==
  \/ ClickConnect
  \/ CreateSessionReturns(TesterSessions)
  \/ TriggerExport
  \/ ComputeExportsReturns(TesterOutcomes)
  \/ SelectBackend
  \/ EditJsonInput(TesterUrls)

SpecTester == InitTester /\ [][NextTester]_vars

\* the export computations that have not returned
ExportsInFlight == {i \in DOMAIN remote : remote[i].kind = "computeExports"}

\* C33: the Trigger Export button is enabled only while the tester is
\* connected with an active session.
C33_ExportEnabledOnlyWhenConnected ==
  ~tester.exportBtnDisabled =>
    /\ tester.isConnected
    /\ IdTruthy(tester.sessionId)
    /\ IsSome(tester.sessionData)

\* this step submitted an export computation
Submits ==
  /\ Len(remote') = Len(remote) + 1
  /\ remote'[Len(remote')].kind = "computeExports"

\* C34: an export computation is submitted only with an active session that
\* has an export and a parameter named moda-json, and a non-empty URL field;
\* the request then has one parameter entry, the id of the moda-json
\* parameter with the URL, and one export id, that of the first export.
C34_SubmitsOnlyWhenComplete ==
  [][Submits =>
       LET call == remote'[Len(remote')]
           request == Val(call.exportRequest)
       IN /\ tester'.event = "exportBtn click"
          /\ IdTruthy(tester.sessionId) /\ IsSome(tester.sessionData)
          /\ call.sessionId = Val(tester.sessionId)
          /\ IsSome(Val(tester.sessionData).exports)
          /\ Len(Val(Val(tester.sessionData).exports)) >= 1
          /\ IsSome(Val(tester.sessionData).parameters)
          /\ tester.jsonInput # <<>>
          /\ Len(request.parameters) = 1
          /\ \E i \in DOMAIN Val(Val(tester.sessionData).parameters) :
               LET ps == Val(Val(tester.sessionData).parameters) IN
               /\ ps[i].name = s_moda_json
               /\ \A j \in 1..(i - 1) : ps[j].name # s_moda_json
               /\ request.parameters[1].id = ps[i].id
          /\ request.parameters[1].value # <<>>
          /\ request.parameters[1].value = TrimString(tester.jsonInput)
          /\ request.exports = <<Val(Val(tester.sessionData).exports)[1].id>>
    ]_vars

\* an export was submitted with the URL of the field for the first export
C34_Witness ==
  /\ tester.event = "exportBtn click"
  /\ ExportsInFlight # {}
  /\ \E i \in ExportsInFlight :
       /\ Val(remote[i].exportRequest).parameters = <<[id |-> "p1", value |-> s_url1]>>
       /\ Val(remote[i].exportRequest).exports = <<"e1">>

\* isConnected goes with a defined sessionId and sessionData
ConnectedIffSession(t) ==
  /\ t.isConnected <=> IsSome(t.sessionId)
  /\ t.isConnected <=> IsSome(t.sessionData)

\* C37: between handlers isConnected is true exactly when sessionId and
\* sessionData are defined; a failed connection attempt and a disconnect
\* leave all three cleared, and a click on the connect button while
\* isConnected is true ends disconnected.
C37_ConnectedIffSession ==
  [][/\ ConnectedIffSession(tester')
     /\ (tester'.event = "createSessionByTicket returned" /\ ~tester'.exportBtnDisabled) =>
          tester'.isConnected
     /\ (tester'.event = "createSessionByTicket returned" /\ tester'.exportBtnDisabled) =>
          (~tester'.isConnected /\ tester'.sessionId = None /\ tester'.sessionData = None)
     /\ (tester.isConnected /\ tester'.event = "connectBtn click") =>
          (~tester'.isConnected /\ tester'.sessionId = None /\ tester'.sessionData = None)
    ]_vars

\* the connect button was clicked while connected and an export in flight
C37_Witness ==
  /\ tester.event = "connectBtn click"
  /\ tester.connectBtnText = "Connect to Backend"
  /\ ~tester.isConnected
  /\ ~tester.connectBtnDisabled
  /\ ExportsInFlight # {}

\* C38: at most one export computation is in flight at any time.
C38_OneExportInFlight == Cardinality(ExportsInFlight) <= 1

\* C39: a change of the backend selector changes the current ticket and
\* nothing else: the session and the calls in flight stay; an export is
\* submitted on the session there is and a connection attempt takes the
\* ticket current at its click.
C39_SelectorChangesTicketOnly ==
  [][/\ tester'.event = "backendSelector change" =>
          /\ tester' = [tester EXCEPT !.event = "backendSelector change",
                                      !.currentBackendTicket = tester'.currentBackendTicket]
          /\ tester'.currentBackendTicket \in
               {tester.env.EXPORT_BACKEND, tester.env.ALT_EXPORT_BACKEND}
          /\ remote' = remote
     /\ Submits => remote'[Len(remote')].sessionId = Val(tester.sessionId)
     /\ (/\ Len(remote') = Len(remote) + 1
         /\ remote'[Len(remote')].kind = "createSessionByTicket") =>
          remote'[Len(remote')].ticket = Val(tester.currentBackendTicket)
     /\ tester'.isConnected /\ tester.isConnected =>
          tester'.sessionTicket = tester.sessionTicket
    ]_vars

\* an export was submitted on a session created with the primary ticket
\* after the selector was set to the other backend
C39_Witness ==
  /\ tester.isConnected
  /\ tester.sessionTicket = Some("ticket-primary")
  /\ tester.currentBackendTicket = Some("ticket-alt")
  /\ tester.event = "exportBtn click"
  /\ \E i \in ExportsInFlight : remote[i].sessionId = Val(tester.sessionId)

====
